---- MODULE Spec2Model ----
(***************************************************************************)
(* A model of the bounded agent runtime of DocuChat                        *)
(* (backend/apps/agent/executor_v2.py, validator.py, tools.py).            *)
(*                                                                         *)
(* Three specifications share the variables below:                        *)
(*   SpecParser  the action parser parse_strict_json_action, applied to    *)
(*               every JSON shape of a bounded family;                     *)
(*   SpecState   the AgentState object driven through its two mutators,    *)
(*               add_search_results and add_opened_citation;               *)
(*   Spec        one agent run (run_agent_v2 / run_agent_v2_streaming):    *)
(*               the main loop, tool dispatch, the validation gate, the    *)
(*               safety auto-open, synthesis and citation grounding.       *)
(*                                                                         *)
(* Strings of the program are kept where a claim reads them (types, tool   *)
(* names, queries, identifiers); free text is abstracted to what the code  *)
(* inspects: an answer is its sequence of bracket markers plus the flags   *)
(* the validator computes from it.  Identifiers (d1, c1, ...) stand for    *)
(* complete UUIDs.                                                         *)
(***************************************************************************)
EXTENDS Integers, Sequences, FiniteSets, TLC

(***************************************************************************)
(* Hard limits.                                                            *)
(***************************************************************************)
MAX_TOOL_CALLS == 5
MAX_ITERATIONS == 10
MAX_REPROMPTS == 3
MAX_CONTEXT_CITATIONS == 5
MAX_QUESTION_LENGTH == 1000

(***************************************************************************)
(* Bounds of the model.                                                    *)
(***************************************************************************)
\* abnormal events of one run: failed tool dispatches, oracle transport
\* errors and ill-typed oracle replies
MaxFaults == 1
\* mutator calls made on one AgentState in SpecState
MaxStateOps == 7

VARIABLES
    pc,                 \* position of the run / of the specification
    mode,               \* "collect" (run_agent_v2) or "stream" (run_agent_v2_streaming)
    constraints,        \* PromptConstraints of the run
    iteration,          \* loop counter
    reprompt_count,
    json_error_count,
    final_action,       \* the accepted FinalAction, or NoFinal
    reprompt_message,   \* kind of the queued reprompt, "" when none
    tool_calls_used,    \* AgentState.tool_calls_used
    search_queries,     \* AgentState._search_queries
    search_results,     \* AgentState.search_results
    opened_citations,   \* AgentState.opened_citations
    citation_counter,   \* AgentState._citation_counter
    notes,              \* AgentState.notes
    trace,              \* the run's trace list
    result,             \* the AgentResult returned, or NoResult
    validation,         \* the last ValidationResult and the Final it judged
    dispatches,         \* history: tool invocations made so far
    opened_log,         \* history: every chunk opened, in open order
    faults,             \* history: failures injected so far
    synth_calls,        \* history: synthesis oracle calls made
    response,           \* SpecParser: the model output handed to the parser
    action,             \* SpecParser: what the parser produced
    events,             \* streaming: what the consumer has received, in order
    question,           \* the question as the entry point holds it
    scenario            \* how the oracle behaves: "any", or a scripted scenario

vars == <<pc, mode, constraints, iteration, reprompt_count, json_error_count,
          final_action, reprompt_message, tool_calls_used, search_queries,
          search_results, opened_citations, citation_counter, notes, trace,
          result, validation, dispatches, opened_log, faults, synth_calls,
          response, action, events, question, scenario>>

(***************************************************************************)
(* JSON values.  A field of the decoded object is [k, v]: k is its JSON    *)
(* kind ("absent" when the key is missing), v its payload when the kind    *)
(* carries one the code reads.                                             *)
(***************************************************************************)
JsonKinds == {"absent", "str", "num", "null", "list", "obj"}

JStr(s) == [k |-> "str", v |-> s]
JOther(kind) == [k |-> kind, v |-> ""]

\* payload of an "input" object: the keys execute_tool reads ("" = missing or empty)
NoInput == [query |-> "", docId |-> "", chunkId |-> ""]
JInput(in) == [k |-> "obj", v |-> in]
JInputOther(kind) == [k |-> kind, v |-> NoInput]

\* payload of an "answer" string: its [n] markers in order (as written, so
\* "07" and "7" differ), whether it is blank, whether it holds a
\* SUSPICIOUS_TERMS term, whether it is a short "I don't know", the text it
\* quotes ("none", else the chunk whose text it is or "other"), whether it
\* holds an insufficiency marker
NoText ==
    [markers |-> <<>>, empty |-> TRUE, term |-> FALSE, dont_know |-> FALSE,
     quote |-> "none", disclosure |-> FALSE]
JAnswer(t) == [k |-> "str", v |-> t]
JAnswerOther(kind) == [k |-> kind, v |-> NoText]

\* payload of a citation list: its dict entries as (docId, chunkId) pairs
JRefs(refs) == [k |-> "list", v |-> refs]
JRefsOther(kind) == [k |-> kind, v |-> <<>>]

\* payload of an insufficiencies list: the number of dict entries
JInsuff(n) == [k |-> "list", v |-> n]
JInsuffOther(kind) == [k |-> kind, v |-> 0]

\* str.lower() on the strings the model uses for the "type" field
Lower(s) ==
    CASE s = "TOOL_CALL" -> "tool_call"
      [] s = "Final" -> "final"
      [] OTHER -> s

KnownTools == {"search_docs", "open_citation"}

(***************************************************************************)
(* ParsedAction.  action_type "raise" stands for an exception escaping     *)
(* the parser.                                                             *)
(***************************************************************************)
ParsedAction(t, tool, in, ans, used, insuff) ==
    [action_type |-> t, tool |-> tool, input |-> in, answer |-> ans,
     used_citations |-> used, insufficiencies |-> insuff]

InvalidAction ==
    ParsedAction("invalid", "", JInputOther("absent"), JAnswerOther("absent"),
                 JRefsOther("absent"), JInsuffOther("absent"))

RaiseAction ==
    ParsedAction("raise", "", JInputOther("absent"), JAnswerOther("absent"),
                 JRefsOther("absent"), JInsuffOther("absent"))

ToolCallOf(tool, in) ==
    ParsedAction("tool_call", tool, in, JAnswerOther("absent"),
                 JRefsOther("absent"), JInsuffOther("absent"))

FinalOf(ans, used, insuff) ==
    ParsedAction("final", "", JInputOther("absent"), ans, used, insuff)

\* dict.get(key, default) where the default is an empty container of kind dk
GetOr(field, dk, empty) == IF field.k = "absent" THEN [k |-> dk, v |-> empty] ELSE field

ParseExplicitToolCall(data) ==
    LET tool == data.tool
        tool_input == GetOr(data.input, "obj", NoInput)
    IN  IF ~(tool.k = "str" /\ tool.v \in KnownTools)
        THEN InvalidAction
        ELSE IF tool_input.k # "obj"
        THEN InvalidAction
        ELSE ToolCallOf(tool.v, tool_input)

ParseExplicitFinal(data) ==
    LET answer == IF data.answer.k = "absent" THEN JAnswer(NoText) ELSE data.answer
        used == GetOr(data.used_citations, "list", <<>>)
        insuff == GetOr(data.insufficiencies, "list", 0)
    IN  IF answer.k # "str"
        THEN InvalidAction
        ELSE FinalOf(answer,
                     IF used.k # "list" THEN JRefs(<<>>) ELSE used,
                     IF insuff.k # "list" THEN JInsuff(0) ELSE insuff)

ParseInferred(data) ==
    IF /\ data.tool.k # "absent"
       /\ data.input.k # "absent"
       /\ data.tool.k = "str"
       /\ data.tool.v \in KnownTools
    THEN ToolCallOf(data.tool.v, data.input)
    ELSE IF data.answer.k # "absent"
    THEN FinalOf(data.answer,
                 IF data.used_citations.k # "absent" THEN data.used_citations
                 ELSE GetOr(data.citations, "list", <<>>),
                 GetOr(data.insufficiencies, "list", 0))
    ELSE InvalidAction

\* parse_strict_json_action.  resp.json is "none" when the text holds no
\* {...} span, "bad" when the span does not decode, "obj" when it decodes
\* (a {...} span that decodes is always an object).
parse_strict_json_action(resp) ==
    IF resp.json # "obj"
    THEN InvalidAction
    ELSE LET data == resp.data
         IN  IF data.type.k \notin {"absent", "str"}
             THEN RaiseAction     \* data.get('type', '').lower() on a non-string
             ELSE LET action_type == IF data.type.k = "absent" THEN ""
                                     ELSE Lower(data.type.v)
                  IN  CASE action_type = "tool_call" -> ParseExplicitToolCall(data)
                        [] action_type = "final" -> ParseExplicitFinal(data)
                        [] OTHER -> ParseInferred(data)

(***************************************************************************)
(* The document store seen by the tool endpoints.  u1 is the caller.       *)
(***************************************************************************)
UserId == "u1"

Chunks == {"c1", "c2", "c3", "c4", "cx"}

ChunkDoc(c) ==
    CASE c \in {"c1", "c2"} -> "d1"
      [] c \in {"c3", "c4"} -> "d2"
      [] OTHER -> "dx"

DocOwner(d) == IF d = "dx" THEN "u2" ELSE "u1"

\* whether the chunk's text (and its search snippet) holds the suspicious
\* term the model's answers may use
ChunkHasTerm(c) == c = "c4"

\* tools.search_docs on a non-empty query: hits in descending relevance
SearchIndex(query) ==
    CASE query = "a" -> <<"c1", "c2", "c3", "c4">>
      [] query = "b" -> <<"c3", "c1">>
      [] query = "c" -> <<"c3">>
      [] OTHER -> <<>>

\* open_citation without its ownership check
open_citation_any_owner(doc_id, chunk_id, user_id) ==
    IF doc_id = "" \/ chunk_id = "" \/ chunk_id \notin Chunks
    THEN [status |-> "validation", doc_id |-> doc_id, chunk_id |-> chunk_id]
    ELSE IF ChunkDoc(chunk_id) # doc_id
    THEN [status |-> "validation", doc_id |-> doc_id, chunk_id |-> chunk_id]
    ELSE [status |-> "ok", doc_id |-> doc_id, chunk_id |-> chunk_id]

\* tools.open_citation without transport failures: the store's verdict
open_citation(doc_id, chunk_id, user_id) ==
    IF doc_id = "" \/ chunk_id = ""
    THEN [status |-> "validation", doc_id |-> doc_id, chunk_id |-> chunk_id]
    ELSE IF chunk_id \notin Chunks
    THEN [status |-> "validation", doc_id |-> doc_id, chunk_id |-> chunk_id]
    ELSE IF ChunkDoc(chunk_id) # doc_id
    THEN [status |-> "validation", doc_id |-> doc_id, chunk_id |-> chunk_id]
    ELSE IF DocOwner(ChunkDoc(chunk_id)) # user_id
    THEN [status |-> "access", doc_id |-> doc_id, chunk_id |-> chunk_id]
    ELSE [status |-> "ok", doc_id |-> doc_id, chunk_id |-> chunk_id]

(***************************************************************************)
(* AgentState.                                                             *)
(***************************************************************************)
SearchResultItem(c, query) == [doc_id |-> ChunkDoc(c), chunk_id |-> c, query |-> query]

OpenedCitation(out, num) ==
    [doc_id |-> out.doc_id, chunk_id |-> out.chunk_id, citation_num |-> num]

remaining_tool_budget(used) == MAX_TOOL_CALLS - used

search_count(queries) == Len(queries)

\* AgentState.add_search_results: the new (_search_queries, search_results)
add_search_results(queries, results, query, hits) ==
    [search_queries |-> Append(queries, query),
     search_results |-> results \o [i \in 1..Len(hits) |-> SearchResultItem(hits[i], query)]]

\* the rolling window of opened citations reuses the number of the slot
add_opened_citation_reuse(opened, counter, out) ==
    LET added == Append(opened, OpenedCitation(out, Len(opened) + 1))
    IN  [citation_counter |-> counter + 1,
         opened_citations |->
            IF Len(added) > MAX_CONTEXT_CITATIONS
            THEN SubSeq(added, Len(added) - MAX_CONTEXT_CITATIONS + 1, Len(added))
            ELSE added]

\* the window keeps its first entries and drops the newest
add_opened_citation_keep_first(opened, counter, out) ==
    LET added == Append(opened, OpenedCitation(out, counter + 1))
    IN  [citation_counter |-> counter + 1,
         opened_citations |->
            IF Len(added) > MAX_CONTEXT_CITATIONS
            THEN SubSeq(added, 1, MAX_CONTEXT_CITATIONS)
            ELSE added]

\* AgentState.add_opened_citation: the new (_citation_counter, opened_citations)
add_opened_citation(opened, counter, out) ==
    LET added == Append(opened, OpenedCitation(out, counter + 1))
    IN  [citation_counter |-> counter + 1,
         opened_citations |->
            IF Len(added) > MAX_CONTEXT_CITATIONS
            THEN SubSeq(added, Len(added) - MAX_CONTEXT_CITATIONS + 1, Len(added))
            ELSE added]

get_known_doc_ids(results) == {results[i].doc_id : i \in 1..Len(results)}
get_known_chunk_ids(results) == {results[i].chunk_id : i \in 1..Len(results)}

\* find_full_uuid_from_prefix on a complete identifier: the identifier
\* itself when it is known, else nothing ("")
find_full_uuid(id, known) == IF id \in known THEN id ELSE ""

(***************************************************************************)
(* Trace entries and notes.                                                *)
(***************************************************************************)
TraceEntry(type, tool, text) == [type |-> type, tool |-> tool, text |-> text]

\* the first trace entry is an ordinary tool entry
PlanEntryAsToolCall == TraceEntry("tool_call", "", "")

PlanEntry == TraceEntry("plan", "", "")

(***************************************************************************)
(* Validator (validator.py), on the abstraction of an answer.              *)
(***************************************************************************)
\* int(ref_str) of a marker as written
MarkerNum(token) ==
    CASE token = "1" -> 1
      [] token = "2" -> 2
      [] token = "7" -> 7
      [] token = "07" -> 7
      [] OTHER -> 0

\* whether "[" + str(int(token)) + "]" is the marker as written
Canonical(token) == token # "07"

\* AgentState.to_snapshot: what the validator reads
to_snapshot(queries, results, opened) ==
    [search_count |-> search_count(queries),
     open_citation_count |-> Len(opened),
     has_snippets |-> Len(results) > 0,
     opened_texts |-> {opened[i].chunk_id : i \in 1..Len(opened)},
     corpus_empty |-> Len(opened) = 0 /\ Len(results) = 0,
     corpus_has_term |->
        \/ \E i \in 1..Len(opened) : ChunkHasTerm(opened[i].chunk_id)
        \/ \E i \in 1..Len(results) : ChunkHasTerm(results[i].chunk_id)]

\* ValidationResult(is_valid=True)
NewValidationResult == [is_valid |-> TRUE, errors |-> <<>>, warnings |-> <<>>]

\* a warning invalidates like an error
add_warning_invalidates(res, code) ==
    [res EXCEPT !.warnings = Append(@, code), !.is_valid = FALSE]

\* ValidationResult.add_error
add_error(res, code) ==
    [res EXCEPT !.errors = Append(@, code), !.is_valid = FALSE]

\* ValidationResult.add_warning
add_warning(res, code) == [res EXCEPT !.warnings = Append(@, code)]

validate_no_empty_answer(answer, snapshot, res) ==
    IF answer.empty THEN add_error(res, "EMPTY_ANSWER")
    ELSE IF (snapshot.open_citation_count > 0 \/ snapshot.has_snippets) /\ answer.dont_know
    THEN add_warning(res, "UNEXPLAINED_DONT_KNOW")
    ELSE res

validate_min_searches(snapshot, cons, res) ==
    IF cons.min_searches > 1 /\ snapshot.search_count < cons.min_searches
    THEN add_error(res, "MIN_SEARCHES_UNMET") ELSE res

validate_min_open_citations(snapshot, cons, res) ==
    IF cons.min_open_citations > 0
       /\ snapshot.open_citation_count < cons.min_open_citations
    THEN add_error(res, "MIN_OPEN_CITATIONS_UNMET") ELSE res

\* warnings only; citation_refs are the numbers of the answer's markers
validate_citation_references(answer, snapshot, res) ==
    IF \E i \in 1..Len(answer.markers) :
          \/ MarkerNum(answer.markers[i]) > snapshot.open_citation_count
          \/ MarkerNum(answer.markers[i]) < 1
    THEN add_warning(add_warning(res, "INVALID_CITATION_REF"), "HALLUCINATED_CITATION")
    ELSE res

\* an ungrounded term is reported as a warning
validate_grounded_claims_warns(answer, snapshot, res) ==
    IF snapshot.corpus_empty
    THEN (IF answer.term THEN add_warning(res, "UNGROUNDED_CLAIM_NO_CONTEXT") ELSE res)
    ELSE (IF answer.term /\ ~snapshot.corpus_has_term
          THEN add_warning(res, "UNGROUNDED_CLAIM") ELSE res)

validate_grounded_claims(answer, snapshot, res) ==
    IF snapshot.corpus_empty
    THEN (IF answer.term THEN add_error(res, "UNGROUNDED_CLAIM_NO_CONTEXT") ELSE res)
    ELSE (IF answer.term /\ ~snapshot.corpus_has_term
          THEN add_error(res, "UNGROUNDED_CLAIM") ELSE res)

validate_exact_quote_requirement(answer, cons, snapshot, res) ==
    IF ~cons.requires_exact_quote THEN res
    ELSE IF snapshot.open_citation_count = 0
    THEN add_error(res, "EXACT_QUOTE_NO_SOURCE")
    ELSE IF answer.quote = "none"
    THEN add_warning(res, "NO_QUOTED_TEXT")
    ELSE IF answer.quote \notin snapshot.opened_texts
    THEN add_warning(res, "QUOTE_NOT_VERBATIM")
    ELSE res

\* insufficiencies is the number of known information gaps
validate_insufficiency_disclosure(answer, cons, insufficiencies, res) ==
    IF ~cons.requires_insufficiency_disclosure THEN res
    ELSE IF insufficiencies > 0 /\ ~answer.disclosure
    THEN add_warning(res, "MISSING_INSUFFICIENCY_DISCLOSURE")
    ELSE res

\* validate_agent_state: the checks run in this order on one result
validate_agent_state(answer, cons, snapshot, insufficiencies) ==
    LET r1 == validate_no_empty_answer(answer, snapshot, NewValidationResult)
        r2 == validate_min_searches(snapshot, cons, r1)
        r3 == validate_min_open_citations(snapshot, cons, r2)
        r4 == validate_citation_references(answer, snapshot, r3)
        r5 == validate_grounded_claims(answer, snapshot, r4)
        r6 == validate_exact_quote_requirement(answer, cons, snapshot, r5)
    IN  validate_insufficiency_disclosure(answer, cons, insufficiencies, r6)

(***************************************************************************)
(* Citation grounding.                                                     *)
(***************************************************************************)
GroundedCitation(c) == [doc_id |-> c.doc_id, chunk_id |-> c.chunk_id]

CitationIds(cits) == {<<cits[i].doc_id, cits[i].chunk_id>> : i \in 1..Len(cits)}

\* the last opened citation with this identity (a dict built from the list)
LastWithId(opened, key) ==
    LET idx == {i \in 1..Len(opened) : <<opened[i].doc_id, opened[i].chunk_id>> = key}
    IN  opened[CHOOSE i \in idx : \A j \in idx : j <= i]

WithNum(opened, n) ==
    opened[CHOOSE i \in 1..Len(opened) : opened[i].citation_num = n]

OpenedNums(opened) == {opened[i].citation_num : i \in 1..Len(opened)}

RECURSIVE GroundRefs(_, _, _)
\* the loop over final_action.used_citations
GroundRefs(refs, opened, grounded) ==
    IF refs = <<>> THEN grounded
    ELSE LET key == <<Head(refs).docId, Head(refs).chunkId>>
         IN  IF key \in CitationIds(opened) /\ key \notin CitationIds(grounded)
             THEN GroundRefs(Tail(refs), opened,
                             Append(grounded, GroundedCitation(LastWithId(opened, key))))
             ELSE GroundRefs(Tail(refs), opened, grounded)

RECURSIVE GroundMarkersNoDedup(_, _, _)
\* the marker loop without the check against chunks already grounded
GroundMarkersNoDedup(tokens, opened, grounded) ==
    IF tokens = <<>> THEN grounded
    ELSE LET ref == MarkerNum(Head(tokens))
         IN  IF ref \in OpenedNums(opened)
             THEN GroundMarkersNoDedup(Tail(tokens), opened,
                                       Append(grounded, GroundedCitation(WithNum(opened, ref))))
             ELSE GroundMarkersNoDedup(Tail(tokens), opened, grounded)

RECURSIVE GroundMarkers(_, _, _)
\* the loop over the [N] markers found in the answer
GroundMarkers(tokens, opened, grounded) ==
    IF tokens = <<>> THEN grounded
    ELSE LET ref == MarkerNum(Head(tokens))
         IN  IF ref \in OpenedNums(opened)
                /\ <<WithNum(opened, ref).doc_id, WithNum(opened, ref).chunk_id>>
                      \notin CitationIds(grounded)
             THEN GroundMarkers(Tail(tokens), opened,
                                Append(grounded, GroundedCitation(WithNum(opened, ref))))
             ELSE GroundMarkers(Tail(tokens), opened, grounded)

\* the markers left after re.sub(rf'\[{ref}\]', '', ...) for every found
\* ref that is no opened citation number: the substitution removes the
\* marker written as str(ref)
StripMarkers(tokens, opened) ==
    LET hallucinated == {MarkerNum(tokens[i]) : i \in 1..Len(tokens)} \ OpenedNums(opened)
        Keep(t) == ~(Canonical(t) /\ MarkerNum(t) \in hallucinated)
    IN  SelectSeq(tokens, Keep)

\* ground_citations_from_state: (cleaned answer's markers, grounded list);
\* refs are the dict entries of used_citations
ground_citations_from_state(markers, refs, opened) ==
    [markers |-> StripMarkers(markers, opened),
     citations |-> GroundMarkers(markers, opened, GroundRefs(refs, opened, <<>>))]

\* fallback_citations_from_search: the first three search results
fallback_citations_from_search(results) ==
    [i \in 1..(IF Len(results) < 3 THEN Len(results) ELSE 3) |->
        [doc_id |-> results[i].doc_id, chunk_id |-> results[i].chunk_id]]

(***************************************************************************)
(* Tool dispatch.  st holds the AgentState fields, the trace and the       *)
(* history counters a dispatch touches.                                    *)
(***************************************************************************)
Cur ==
    [tool_calls_used |-> tool_calls_used, search_queries |-> search_queries,
     search_results |-> search_results, opened_citations |-> opened_citations,
     citation_counter |-> citation_counter, notes |-> notes, trace |-> trace,
     dispatches |-> dispatches, opened_log |-> opened_log]

ToolReturn(st, success, raised, failed) ==
    [st |-> st, success |-> success, raised |-> raised, failed |-> failed]

WithOpened(st, out) ==
    LET added == add_opened_citation(st.opened_citations, st.citation_counter, out)
    IN  [st EXCEPT !.opened_citations = added.opened_citations,
                   !.citation_counter = added.citation_counter,
                   !.opened_log = Append(@, added.opened_citations[Len(added.opened_citations)]),
                   !.trace = Append(@, TraceEntry("tool_call", "open_citation", "opened"))]

WithSearch(st, query, hits) ==
    LET added == add_search_results(st.search_queries, st.search_results, query, hits)
    IN  [st EXCEPT !.search_queries = added.search_queries,
                   !.search_results = added.search_results,
                   !.trace = Append(@, TraceEntry("tool_call", "search_docs", "found"))]

WithError(st, tool, text, note) ==
    [st EXCEPT !.trace = Append(@, TraceEntry("error", tool, text)),
               !.notes = IF note = "" THEN @ ELSE Append(@, note)]

\* the search_docs branch of execute_tool.  fault is what the endpoint does
\* beyond its input check: "none", "tool_error" (ToolError) or "unexpected"
\* (an exception that is no ToolError)
ExecuteSearch(input, st, fault) ==
    LET query == input.query
    IN  IF query = ""
        THEN ToolReturn(st, FALSE, FALSE, TRUE)            \* "Query is required"
        ELSE IF fault = "unexpected"
        THEN ToolReturn(st, FALSE, TRUE, TRUE)
        ELSE IF query = " "
        THEN ToolReturn(WithError(st, "search_docs", "validation", "Tool error"),
                        FALSE, FALSE, TRUE)                \* ToolValidationError
        ELSE CASE fault = "tool_error" ->
                    ToolReturn(WithError(st, "search_docs", "tool_error", ""),
                               FALSE, FALSE, TRUE)
               [] OTHER -> ToolReturn(WithSearch(st, query, SearchIndex(query)),
                                      TRUE, FALSE, FALSE)

\* identifiers after resolve_truncated_ids and the first-chunk-of-the-doc rule
ResolvedIds(doc_id, chunk_id, results) ==
    LET resolved_doc == find_full_uuid(doc_id, get_known_doc_ids(results))
        resolved_chunk == find_full_uuid(chunk_id, get_known_chunk_ids(results))
    IN  IF resolved_doc # "" /\ resolved_chunk # ""
        THEN <<resolved_doc, resolved_chunk>>
        ELSE IF resolved_doc # ""
        THEN LET first == CHOOSE i \in 1..Len(results) :
                              /\ results[i].doc_id = resolved_doc
                              /\ \A j \in 1..(i - 1) : results[j].doc_id # resolved_doc
             IN  <<resolved_doc, results[first].chunk_id>>
        ELSE <<doc_id, chunk_id>>

\* the open_citation branch of execute_tool
ExecuteOpen(input, st, fault) ==
    IF input.docId = "" \/ input.chunkId = ""
    THEN ToolReturn(st, FALSE, FALSE, TRUE)            \* "docId and chunkId are required"
    ELSE LET ids == ResolvedIds(input.docId, input.chunkId, st.search_results)
             out == IF fault = "tool_error"
                    THEN [status |-> "tool_error", doc_id |-> ids[1], chunk_id |-> ids[2]]
                    ELSE open_citation(ids[1], ids[2], UserId)
         IN  CASE out.status = "ok" -> ToolReturn(WithOpened(st, out), TRUE, FALSE, FALSE)
               [] out.status = "validation" ->
                    ToolReturn(WithError(st, "open_citation", "uuid", "open_citation failed"),
                               FALSE, FALSE, TRUE)
               [] out.status = "access" ->
                    ToolReturn(WithError(st, "open_citation", "access", "Access denied"),
                               FALSE, FALSE, TRUE)
               [] OTHER ->
                    ToolReturn(WithError(st, "open_citation", "tool_error", ""),
                               FALSE, FALSE, TRUE)

\* execute_tool without the count of the call against the budget
execute_tool_uncounted(tool_call, st, fault) ==
    LET st1 == [st EXCEPT !.dispatches = @ + 1]
    IN  IF tool_call.input.k # "obj"
        THEN ToolReturn(st1, FALSE, TRUE, TRUE)
        ELSE IF tool_call.tool = "search_docs"
        THEN ExecuteSearch(tool_call.input.v, st1, fault)
        ELSE ExecuteOpen(tool_call.input.v, st1, fault)

\* execute_tool: (new state, success, whether an exception escaped, whether
\* the dispatch failed)
execute_tool(tool_call, st, fault) ==
    LET st1 == [st EXCEPT !.tool_calls_used = @ + 1, !.dispatches = @ + 1]
    IN  IF tool_call.input.k # "obj"
        THEN ToolReturn(st1, FALSE, TRUE, TRUE)        \* .get on a value that is no dict
        ELSE IF tool_call.tool = "search_docs"
        THEN ExecuteSearch(tool_call.input.v, st1, fault)
        ELSE ExecuteOpen(tool_call.input.v, st1, fault)

(***************************************************************************)
(* The safety auto-open: open_citation on the first three search results,  *)
(* while budget remains.  fails[i] says whether the i-th call fails.       *)
(***************************************************************************)
RECURSIVE AutoOpenFrom(_, _, _, _)
AutoOpenFrom(i, st, fails, opened_count) ==
    IF i > 3 \/ i > Len(st.search_results)
       \/ remaining_tool_budget(st.tool_calls_used) <= 0
    THEN [st |-> st, opened_count |-> opened_count]
    ELSE LET r == st.search_results[i]
             out == open_citation(r.doc_id, r.chunk_id, UserId)
             called == [st EXCEPT !.dispatches = @ + 1]
         IN  IF fails[i] \/ out.status # "ok"
             THEN AutoOpenFrom(i + 1, called, fails, opened_count)
             ELSE AutoOpenFrom(i + 1,
                               [WithOpened(called, out) EXCEPT !.tool_calls_used = @ + 1],
                               fails, opened_count + 1)

\* the number of auto-open calls that fail under fails, in the order they
\* are made
AutoOpenFailures(fails, st) ==
    AutoOpenFrom(1, st, fails, 0).st.dispatches - st.dispatches
        - AutoOpenFrom(1, st, fails, 0).opened_count

(***************************************************************************)
(* The oracle's replies during a run.                                      *)
(***************************************************************************)
Absent == JOther("absent")

Obj(type, tool, input, answer, used, insuff) ==
    [json |-> "obj",
     data |-> [type |-> type, tool |-> tool, input |-> input, answer |-> answer,
               used_citations |-> used, citations |-> JRefsOther("absent"),
               insufficiencies |-> insuff]]

Garbage(json) ==
    [json |-> json,
     data |-> [type |-> Absent, tool |-> Absent, input |-> JInputOther("absent"),
               answer |-> JAnswerOther("absent"), used_citations |-> JRefsOther("absent"),
               citations |-> JRefsOther("absent"),
               insufficiencies |-> JInsuffOther("absent")]]

ToolCallReply(tool, in) ==
    Obj(JStr("tool_call"), JStr(tool), JInput(in), JAnswerOther("absent"),
        JRefsOther("absent"), JInsuffOther("absent"))

FinalReply(text, refs, n) ==
    Obj(JStr("final"), Absent, JInputOther("absent"), JAnswer(text), JRefs(refs), JInsuff(n))

Query(q) == [NoInput EXCEPT !.query = q]
Ids(d, c) == [NoInput EXCEPT !.docId = d, !.chunkId = c]
Text(markers, term) == [NoText EXCEPT !.markers = markers, !.empty = FALSE, !.term = term]

SearchReplies == {ToolCallReply("search_docs", Query(q)) : q \in {"", " ", "a"}}

OpenReplies ==
    {ToolCallReply("open_citation", in) :
        in \in {Ids("", ""), Ids("d1", "c2"), Ids("d9", "c9"), Ids("dx", "cx")}}

FinalReplies ==
    {FinalReply(Text(<<"1", "7", "07">>, FALSE), <<[docId |-> "d1", chunkId |-> "c2"]>>, 1),
     FinalReply(Text(<<>>, TRUE), <<>>, 0)}

\* text without a JSON object
GarbageReplies == {Garbage("none")}

\* JSON objects with ill-typed fields
IllTypedReplies ==
    {\* "type" is a number
     Obj(JOther("num"), Absent, JInputOther("absent"), JAnswerOther("absent"),
         JRefsOther("absent"), JInsuffOther("absent")),
     \* no "type"; "input" is a string
     Obj(Absent, JStr("search_docs"), JInputOther("str"), JAnswerOther("absent"),
         JRefsOther("absent"), JInsuffOther("absent")),
     \* no "type"; "answer" is a number
     Obj(Absent, Absent, JInputOther("absent"), JAnswerOther("num"),
         JRefsOther("absent"), JInsuffOther("absent")),
     \* no "type"; "used_citations" is a number
     Obj(Absent, Absent, JInputOther("absent"), JAnswer(Text(<<>>, FALSE)),
         JRefsOther("num"), JInsuffOther("absent"))}

OracleReplies ==
    SearchReplies \cup OpenReplies \cup FinalReplies \cup GarbageReplies
        \cup IllTypedReplies

\* the constraints of a prompt that asks for three searches and two opened
\* citations
MultiStepConstraints ==
    [min_searches |-> 3, min_open_citations |-> 2, requires_exact_quote |-> FALSE,
     requires_insufficiency_disclosure |-> FALSE]

\* a Final without markers, given before the constraints are met
EarlyFinal == FinalReply(Text(<<>>, FALSE), <<>>, 0)

\* the Finals of a well-behaved oracle: markers [1], [1][2], [1] with a term
\* the corpus may not hold, no marker at all, and an empty answer
CompliantFinals ==
    {FinalReply(Text(<<"1">>, FALSE), <<[docId |-> "d1", chunkId |-> "c2"]>>, 0),
     FinalReply(Text(<<"1", "2">>, FALSE),
                <<[docId |-> "d1", chunkId |-> "c2"], [docId |-> "d2", chunkId |-> "c3"]>>, 0),
     FinalReply(Text(<<"1">>, TRUE), <<>>, 0),
     EarlyFinal,
     FinalReply(NoText, <<[docId |-> "d1", chunkId |-> "c2"]>>, 0)}

\* what the oracle replies in a scripted scenario
ScenarioReplies ==
    CASE scenario = "early_final" ->
            IF iteration = 0 THEN {ToolCallReply("search_docs", Query("a"))}
            ELSE {EarlyFinal}
      [] scenario = "compliant" ->
            {ToolCallReply("search_docs", Query(q)) : q \in {"a", "b"}}
                \cup {ToolCallReply("open_citation", in) :
                          in \in {Ids("d1", "c2"), Ids("d2", "c3")}}
                \cup CompliantFinals
      [] scenario = "tools_only" ->
            SearchReplies \cup OpenReplies \cup {ToolCallReply("search_docs", Query("z"))}
      [] scenario = "demanding" ->
            {ToolCallReply("search_docs", Query("a")),
             ToolCallReply("open_citation", Ids("d1", "c2")),
             ToolCallReply("open_citation", Ids("d2", "c3")),
             FinalReply(Text(<<"1">>, FALSE), <<>>, 0)}
      [] scenario = "one_hit" ->
            IF iteration = 0 THEN {ToolCallReply("search_docs", Query("c"))}
            ELSE {EarlyFinal}
      [] OTHER -> {}

\* the replies the oracle may still give: ill-typed ones count as abnormal
RepliesNow ==
    IF scenario # "any" THEN ScenarioReplies
    ELSE IF faults < MaxFaults THEN OracleReplies
    ELSE OracleReplies \ IllTypedReplies

IllTyped(r) == IF r \in IllTypedReplies THEN 1 ELSE 0

\* what the synthesis call may answer: the markers of its text
SynthAnswers == {<<"1", "7">>}

ConstraintsSet ==
    {[min_searches |-> 1, min_open_citations |-> 0, requires_exact_quote |-> FALSE,
      requires_insufficiency_disclosure |-> FALSE],
     [min_searches |-> 2, min_open_citations |-> 1, requires_exact_quote |-> TRUE,
      requires_insufficiency_disclosure |-> FALSE]}

NoFinal ==
    [iteration |-> 0, answer |-> NoText, used_citations |-> JRefsOther("absent"),
     insufficiencies |-> JInsuffOther("absent")]

NoValidation ==
    [iteration |-> 0, answer |-> NoText, is_valid |-> FALSE, errors |-> <<>>,
     warnings |-> <<>>]

NoResult == [outcome |-> "none", markers |-> <<>>, citations |-> <<>>, insufficiencies |-> 0]

NoResponse == Garbage("none")

(***************************************************************************)
(* Streaming.  run_agent_v2_streaming yields trace entries and at last the *)
(* result; the SSE view turns each into an event and an escaping exception *)
(* into an error event.  The transient progress entries ("thinking",       *)
(* "synthesizing"), which never enter the trace, are left out.             *)
(***************************************************************************)
Event(kind, entry) == [kind |-> kind, entry |-> entry]

Complete == Event("complete", TraceEntry("", "", ""))

Fatal == Event("error", TraceEntry("", "", ""))

Yielded(entries) == [i \in 1..Len(entries) |-> Event("trace", entries[i])]

\* what the step appended to the trace
Appended == SubSeq(trace', Len(trace) + 1, Len(trace'))

\* the consumer receives evs (streaming mode only)
Emit(evs) == events' = IF mode = "stream" THEN events \o evs ELSE events

(***************************************************************************)
(* One run.                                                                *)
(***************************************************************************)
ApplySt(st) ==
    /\ tool_calls_used' = st.tool_calls_used
    /\ search_queries' = st.search_queries
    /\ search_results' = st.search_results
    /\ opened_citations' = st.opened_citations
    /\ citation_counter' = st.citation_counter
    /\ notes' = st.notes
    /\ trace' = st.trace
    /\ dispatches' = st.dispatches
    /\ opened_log' = st.opened_log

stateVars == <<tool_calls_used, search_queries, search_results, opened_citations,
               citation_counter, notes, dispatches, opened_log>>

parserVars == <<response, action, scenario>>

\* A question is modelled by the length of its text without the surrounding
\* whitespace and by whether it has surrounding whitespace.
Question(len, pad) == [len |-> len, pad |-> pad]

\* question.strip()
StripQuestion(q) == Question(q.len, FALSE)

IsBlankEmptyOnly(q) == q.len = 0 /\ ~q.pad

\* not question or not question.strip()
IsBlank(q) == (q.len = 0 /\ ~q.pad) \/ StripQuestion(q).len = 0

\* question.strip(), then question[:MAX_QUESTION_LENGTH] when longer
Truncated(q) ==
    Question(IF q.len > MAX_QUESTION_LENGTH THEN MAX_QUESTION_LENGTH ELSE q.len, FALSE)

Init ==
    /\ pc = "start"
    /\ mode \in {"collect", "stream"}
    /\ question \in {Question(0, FALSE), Question(0, TRUE), Question(1, FALSE)}
    /\ constraints \in ConstraintsSet
    /\ iteration = 0
    /\ reprompt_count = 0
    /\ json_error_count = 0
    /\ final_action = NoFinal
    /\ reprompt_message = ""
    /\ tool_calls_used = 0
    /\ search_queries = <<>>
    /\ search_results = <<>>
    /\ opened_citations = <<>>
    /\ citation_counter = 0
    /\ notes = <<>>
    /\ trace = <<>>
    /\ result = NoResult
    /\ validation = NoValidation
    /\ dispatches = 0
    /\ opened_log = <<>>
    /\ faults = 0
    /\ synth_calls = 0
    /\ response = NoResponse
    /\ action = InvalidAction
    /\ scenario = "any"
    /\ events = <<>>

\* an empty or whitespace-only question: AgentError before anything else
RejectQuestion ==
    /\ pc = "start"
    /\ IsBlank(question)
    /\ pc' = "rejected"
    /\ UNCHANGED events
    /\ UNCHANGED <<question, mode, constraints, iteration, reprompt_count, json_error_count,
                   final_action, reprompt_message, trace, result, validation, faults,
                   synth_calls>>
    /\ UNCHANGED stateVars
    /\ UNCHANGED parserVars

\* constraints analysed, plan generated and traced, state initialised
StartRun ==
    /\ pc = "start"
    /\ ~IsBlank(question)
    /\ question' = Truncated(question)
    /\ pc' = "loop"
    /\ trace' = Append(trace, PlanEntry)
    /\ Emit(<<Event("trace", PlanEntry)>>)
    /\ UNCHANGED <<mode, constraints, iteration, reprompt_count, json_error_count,
                   final_action, reprompt_message, result, validation, faults,
                   synth_calls>>
    /\ UNCHANGED stateVars
    /\ UNCHANGED parserVars

\* the loop admits one more turn when the budget is just spent
LoopGuardOffByOne ==
    /\ pc = "loop"
    /\ iteration < MAX_ITERATIONS
    /\ tool_calls_used <= MAX_TOOL_CALLS

LoopGuard ==
    /\ pc = "loop"
    /\ iteration < MAX_ITERATIONS
    /\ tool_calls_used < MAX_TOOL_CALLS

\* call_llm raises: error entry, break
OracleFails ==
    /\ LoopGuard
    /\ faults < MaxFaults
    /\ faults' = faults + 1
    /\ iteration' = iteration + 1
    /\ reprompt_message' = ""
    /\ trace' = Append(trace, TraceEntry("error", "", "llm"))
    /\ Emit(Yielded(Appended))
    /\ pc' = "post"
    /\ UNCHANGED <<question, mode, constraints, reprompt_count, json_error_count, final_action,
                   result, validation, synth_calls>>
    /\ UNCHANGED stateVars
    /\ UNCHANGED parserVars

\* parse_strict_json_action raises: the exception leaves the run
ParserRaises ==
    /\ LoopGuard
    /\ \E r \in RepliesNow : parse_strict_json_action(r).action_type = "raise"
    /\ faults' = faults + 1
    /\ iteration' = iteration + 1
    /\ reprompt_message' = ""
    /\ pc' = "raised"
    /\ Emit(<<Fatal>>)
    /\ UNCHANGED <<question, mode, constraints, reprompt_count, json_error_count, final_action,
                   trace, result, validation, synth_calls>>
    /\ UNCHANGED stateVars
    /\ UNCHANGED parserVars

\* invalid actions are retried twice, the third leaves the loop
InvalidTurnThreeStrikes ==
    /\ LoopGuard
    /\ \E r \in RepliesNow : parse_strict_json_action(r).action_type = "invalid"
    /\ iteration' = iteration + 1
    /\ json_error_count' = json_error_count + 1
    /\ UNCHANGED events
    /\ IF json_error_count + 1 >= 3
       THEN /\ notes' = IF mode = "collect" THEN Append(notes, "Model output malformed")
                        ELSE notes
            /\ reprompt_message' = ""
            /\ pc' = "post"
       ELSE /\ notes' = notes
            /\ reprompt_message' = "invalid_json"
            /\ pc' = "loop"
    /\ UNCHANGED <<question, mode, constraints, reprompt_count, final_action, trace, result,
                   validation, faults, synth_calls, tool_calls_used, search_queries,
                   search_results, opened_citations, citation_counter, dispatches,
                   opened_log>>
    /\ UNCHANGED parserVars

\* an invalid action: one retry via reprompt, the second leaves the loop
InvalidTurn ==
    /\ LoopGuard
    /\ \E r \in RepliesNow : parse_strict_json_action(r).action_type = "invalid"
    /\ iteration' = iteration + 1
    /\ json_error_count' = json_error_count + 1
    /\ UNCHANGED events
    /\ IF json_error_count + 1 >= 2
       THEN /\ notes' = IF mode = "collect" THEN Append(notes, "Model output malformed")
                        ELSE notes
            /\ reprompt_message' = ""
            /\ pc' = "post"
       ELSE /\ notes' = notes
            /\ reprompt_message' = "invalid_json"
            /\ pc' = "loop"
    /\ UNCHANGED <<question, mode, constraints, reprompt_count, final_action, trace, result,
                   validation, faults, synth_calls, tool_calls_used, search_queries,
                   search_results, opened_citations, citation_counter, dispatches,
                   opened_log>>
    /\ UNCHANGED parserVars

\* what run_agent_v2 / run_agent_v2_streaming do with execute_tool's return
AfterTool(ret) ==
    IF ~ret.raised /\ ~ret.success /\ mode = "collect"
    THEN [ret.st EXCEPT !.notes = Append(@, "Tool failed")]
    ELSE ret.st

\* a tool_call action: dispatch, continue (or the exception leaves the run)
ToolTurn ==
    /\ LoopGuard
    /\ \E r \in RepliesNow, fault \in {"none", "tool_error", "unexpected"} :
          LET act == parse_strict_json_action(r)
              ret == execute_tool(act, Cur, fault)
          IN  /\ act.action_type = "tool_call"
              /\ ~ret.failed \/ faults < MaxFaults
              /\ ApplySt(AfterTool(ret))
              /\ faults' = IF ret.failed THEN faults + 1 ELSE faults
              /\ pc' = IF ret.raised THEN "raised" ELSE "loop"
              \* streaming: "if trace: yield trace[-1]" after execute_tool returned
              /\ Emit(IF ret.raised THEN <<Fatal>>
                      ELSE Yielded(SubSeq(trace', Len(trace'), Len(trace'))))
    /\ iteration' = iteration + 1
    /\ reprompt_message' = ""
    /\ UNCHANGED <<question, mode, constraints, reprompt_count, json_error_count, final_action,
                   result, validation, synth_calls>>
    /\ UNCHANGED parserVars

AutoOpenCondition(st) ==
    /\ Len(st.opened_citations) = 0
    /\ Len(st.search_results) > 0
    /\ remaining_tool_budget(st.tool_calls_used) > 0

\* the state after the safety check of the validation gate, and how many
\* citations it opened
AfterSafetyCheck(st, fails) ==
    IF AutoOpenCondition(st)
    THEN AutoOpenFrom(1, [st EXCEPT !.trace = Append(@, TraceEntry("tool_call", "auto_open", ""))],
                      fails, 0)
    ELSE [st |-> st, opened_count |-> 0]

\* what the gate does with a validation result: "accept", "accept_max"
\* (reprompts used up) or "reprompt"
GateAlwaysAccepts(is_valid, new_reprompt_count) ==
    IF is_valid THEN "accept" ELSE "accept_max"

GateDecision(is_valid, new_reprompt_count) ==
    IF is_valid THEN "accept"
    ELSE IF new_reprompt_count >= MAX_REPROMPTS THEN "accept_max"
    ELSE "reprompt"

AcceptedFinal(act, it) ==
    [iteration |-> it, answer |-> act.answer.v, used_citations |-> act.used_citations,
     insufficiencies |-> act.insufficiencies]

FinalEntries(decision, v) ==
    CASE decision = "accept" -> <<TraceEntry("final", "", "validated")>>
      [] decision = "accept_max" ->
            <<TraceEntry("validation", "", "failed")>>
                \o (IF mode = "collect"
                    THEN <<TraceEntry("final", "", "Accepted after max reprompts")>>
                    ELSE <<>>)
      [] OTHER ->
            <<TraceEntry("validation", "", "failed")>>
                \o (IF mode = "collect" THEN <<TraceEntry("reprompt", "", "")>> ELSE <<>>)

\* the failure patterns the environment may choose for the safety check
FailPatterns(st) ==
    IF AutoOpenCondition(st) THEN [1..3 -> BOOLEAN] ELSE {[i \in 1..3 |-> FALSE]}

\* a final action whose safety check opened citations: reprompt, continue
FinalAutoOpens ==
    /\ LoopGuard
    /\ \E r \in RepliesNow, fails \in FailPatterns(Cur) :
          LET act == parse_strict_json_action(r)
              ao == AfterSafetyCheck(Cur, fails)
              failed == AutoOpenFailures(fails, Cur) + IllTyped(r)
          IN  /\ act.action_type = "final"
              /\ ao.opened_count > 0
              /\ faults + failed <= MaxFaults
              /\ faults' = faults + failed
              /\ ApplySt(ao.st)
    /\ Emit(Yielded(Appended))
    /\ iteration' = iteration + 1
    /\ reprompt_message' = "auto_opened"
    /\ pc' = "loop"
    /\ UNCHANGED <<question, mode, constraints, reprompt_count, json_error_count, final_action,
                   result, validation, synth_calls>>
    /\ UNCHANGED parserVars

\* a final action that reaches the validator
FinalValidated ==
    /\ LoopGuard
    /\ \E r \in RepliesNow, fails \in FailPatterns(Cur) :
          LET act == parse_strict_json_action(r)
              ao == AfterSafetyCheck(Cur, fails)
              failed == (IF AutoOpenCondition(Cur) THEN AutoOpenFailures(fails, Cur) ELSE 0)
                            + IllTyped(r)
              st == ao.st
              v == validate_agent_state(act.answer.v, constraints,
                       to_snapshot(st.search_queries, st.search_results,
                                   st.opened_citations), 0)
              decision == GateDecision(v.is_valid,
                                       IF v.is_valid THEN reprompt_count
                                       ELSE reprompt_count + 1)
          IN  /\ act.action_type = "final"
              /\ ao.opened_count = 0
              /\ faults + failed <= MaxFaults
              /\ faults' = faults + failed
              /\ IF act.answer.k # "str"
                 THEN \* re.findall on an answer that is no string
                      /\ ApplySt(st)
                      /\ pc' = "raised"
                      /\ UNCHANGED <<reprompt_count, final_action, validation>>
                      /\ reprompt_message' = ""
                 ELSE /\ validation' = [iteration |-> iteration + 1,
                                        answer |-> act.answer.v,
                                        is_valid |-> v.is_valid,
                                        errors |-> v.errors, warnings |-> v.warnings]
                      /\ reprompt_count' = IF v.is_valid THEN reprompt_count
                                           ELSE reprompt_count + 1
                      /\ ApplySt([st EXCEPT !.trace = @ \o FinalEntries(decision, v)])
                      /\ final_action' = IF decision = "reprompt" THEN final_action
                                         ELSE AcceptedFinal(act, iteration + 1)
                      /\ reprompt_message' = IF decision = "reprompt" THEN "validation"
                                             ELSE ""
                      /\ pc' = IF decision = "reprompt" THEN "loop" ELSE "post"
    /\ Emit(Yielded(Appended) \o (IF pc' = "raised" THEN <<Fatal>> ELSE <<>>))
    /\ iteration' = iteration + 1
    /\ UNCHANGED <<question, mode, constraints, json_error_count, result, synth_calls>>
    /\ UNCHANGED parserVars

(***************************************************************************)
(* After the loop.                                                         *)
(***************************************************************************)
LoopLeft == pc = "post" \/ (pc = "loop" /\ ~LoopGuard)

Finish(outcome, markers, citations, insuff, entries, failed) ==
    /\ result' = [outcome |-> outcome, markers |-> markers, citations |-> citations,
                  insufficiencies |-> insuff]
    /\ trace' = IF mode = "collect" THEN trace \o entries ELSE trace
    /\ Emit(<<Complete>>)
    /\ pc' = "done"
    /\ faults' = faults + failed
    /\ UNCHANGED <<question, mode, constraints, iteration, reprompt_count, json_error_count,
                   final_action, reprompt_message, validation>>
    /\ UNCHANGED stateVars
    /\ UNCHANGED parserVars

\* nothing gathered, and the synthesis oracle is asked all the same
NoContextSynthesized ==
    /\ LoopLeft
    /\ final_action = NoFinal
    /\ opened_citations = <<>> /\ search_results = <<>>
    /\ synth_calls' = synth_calls + 1
    /\ \E ans \in SynthAnswers :
          Finish("synthesized", ans, <<>>, 0, <<TraceEntry("final", "", "Synthesized")>>, 0)

\* nothing gathered: the literal "I don't know" answer, no oracle call
NoContext ==
    /\ LoopLeft
    /\ final_action = NoFinal
    /\ opened_citations = <<>> /\ search_results = <<>>
    /\ synth_calls' = synth_calls
    /\ Finish("dont_know", <<>>, <<>>, 0, <<TraceEntry("final", "", "No relevant sources found")>>, 0)

\* citations of a synthesized answer: every opened citation, else the
\* search fallback
SynthesisCitations(opened, results) ==
    IF opened # <<>>
    THEN [i \in 1..Len(opened) |-> GroundedCitation(opened[i])]
    ELSE fallback_citations_from_search(results)

\* synthesis from the gathered context
Synthesize ==
    /\ LoopLeft
    /\ final_action = NoFinal
    /\ ~(opened_citations = <<>> /\ search_results = <<>>)
    /\ synth_calls' = synth_calls + 1
    /\ \E ans \in SynthAnswers :
          Finish("synthesized", ans, SynthesisCitations(opened_citations, search_results), 0,
                 <<TraceEntry("final", "", "Synthesized")>>, 0)

\* the synthesis call raises
SynthesisFails ==
    /\ LoopLeft
    /\ final_action = NoFinal
    /\ ~(opened_citations = <<>> /\ search_results = <<>>)
    /\ faults < MaxFaults
    /\ synth_calls' = synth_calls + 1
    /\ Finish("synthesis_error", <<>>, <<>>, 0,
              <<TraceEntry("error", "", "Synthesis failed")>>, 1)

\* citations of an accepted Final: grounded ones, else the search fallback
FinalCitations(grounded, results) ==
    IF grounded = <<>> /\ results # <<>>
    THEN fallback_citations_from_search(results)
    ELSE grounded

\* grounding of the accepted Final
GroundFinal ==
    /\ LoopLeft
    /\ final_action # NoFinal
    /\ synth_calls' = synth_calls
    /\ IF final_action.used_citations.k \in {"num", "null"}
       THEN \* iterating used_citations that is no iterable
            /\ pc' = "raised"
            /\ Emit(<<Fatal>>)
            /\ UNCHANGED <<question, mode, constraints, iteration, reprompt_count,
                           json_error_count, final_action, reprompt_message,
                           validation, faults, result, trace>>
            /\ UNCHANGED stateVars
            /\ UNCHANGED parserVars
       ELSE LET refs == IF final_action.used_citations.k = "list"
                        THEN final_action.used_citations.v ELSE <<>>
                g == ground_citations_from_state(final_action.answer.markers, refs,
                                                 opened_citations)
                n == IF mode = "collect" /\ final_action.insufficiencies.k = "list"
                     THEN final_action.insufficiencies.v ELSE 0
            IN  Finish("final", g.markers, FinalCitations(g.citations, search_results),
                       n, <<>>, 0)

Next ==
    \/ RejectQuestion
    \/ StartRun
    \/ OracleFails
    \/ ParserRaises
    \/ InvalidTurn
    \/ ToolTurn
    \/ FinalAutoOpens
    \/ FinalValidated
    \/ NoContext
    \/ Synthesize
    \/ SynthesisFails
    \/ GroundFinal

Spec == Init /\ [][Next]_vars

(***************************************************************************)
(* SpecParser: the parser applied to one model output.                     *)
(***************************************************************************)
\* the model outputs handed to the parser: texts without a decodable JSON
\* object, and objects with every combination of field shapes
ParserResponses ==
    {Garbage("none"), Garbage("bad")}
        \cup {Obj(t, tool, in, ans, used, ins) :
                 t \in {Absent, JStr("tool_call"), JStr("TOOL_CALL"), JStr("final"),
                        JStr("think"), JOther("num"), JOther("null"), JOther("list"),
                        JOther("obj")},
                 tool \in {Absent, JStr("search_docs"), JStr("delete_docs"), JOther("num")},
                 in \in {JInputOther("absent"), JInput(Query("a")), JInputOther("str"),
                         JInputOther("null")},
                 ans \in {JAnswerOther("absent"), JAnswer(Text(<<"1">>, FALSE)),
                          JAnswerOther("num"), JAnswerOther("list")},
                 used \in {JRefsOther("absent"), JRefs(<<>>), JRefsOther("num")},
                 ins \in {JInsuffOther("absent"), JInsuff(1), JInsuffOther("str")}}

\* everything outside the parser rests
RunIdle ==
    /\ mode = "collect"
    /\ question = Question(1, FALSE)
    /\ constraints = [min_searches |-> 1, min_open_citations |-> 0,
                      requires_exact_quote |-> FALSE,
                      requires_insufficiency_disclosure |-> FALSE]
    /\ iteration = 0
    /\ reprompt_count = 0
    /\ json_error_count = 0
    /\ final_action = NoFinal
    /\ reprompt_message = ""
    /\ tool_calls_used = 0
    /\ notes = <<>>
    /\ trace = <<>>
    /\ result = NoResult
    /\ validation = NoValidation
    /\ dispatches = 0
    /\ faults = 0
    /\ synth_calls = 0
    /\ events = <<>>

InitParser ==
    /\ pc = "parse"
    /\ response \in ParserResponses
    /\ action = InvalidAction
    /\ scenario = "any"
    /\ RunIdle
    /\ search_queries = <<>>
    /\ search_results = <<>>
    /\ opened_citations = <<>>
    /\ citation_counter = 0
    /\ opened_log = <<>>

\* one call of parse_strict_json_action(response)
Parse ==
    /\ pc = "parse"
    /\ action' = parse_strict_json_action(response)
    /\ pc' = IF action'.action_type = "raise" THEN "raised" ELSE "parsed"
    /\ UNCHANGED <<question, mode, constraints, iteration, reprompt_count, json_error_count,
                   final_action, reprompt_message, trace, result, validation, faults,
                   synth_calls, response, events, scenario>>
    /\ UNCHANGED stateVars

SpecParser == InitParser /\ [][Parse]_vars

(***************************************************************************)
(* SpecState: one AgentState driven through its mutators.                  *)
(***************************************************************************)
InitState ==
    /\ pc = "state"
    /\ response = NoResponse
    /\ action = InvalidAction
    /\ scenario = "any"
    /\ RunIdle
    /\ search_queries = <<>>
    /\ search_results = <<>>
    /\ opened_citations = <<>>
    /\ citation_counter = 0
    /\ opened_log = <<>>

StateOps == Len(search_queries) + Len(opened_log)

\* state.add_search_results(result, query)
AddSearchResults ==
    /\ pc = "state"
    /\ StateOps < MaxStateOps
    /\ \E query \in {"a", "b"} :
          LET added == add_search_results(search_queries, search_results, query,
                                          SearchIndex(query))
          IN  /\ search_queries' = added.search_queries
              /\ search_results' = added.search_results
    /\ UNCHANGED <<pc, question, mode, constraints, iteration, reprompt_count, json_error_count,
                   final_action, reprompt_message, trace, result, validation, faults,
                   synth_calls, tool_calls_used, opened_citations, citation_counter,
                   notes, dispatches, opened_log, events>>
    /\ UNCHANGED parserVars

\* state.add_opened_citation(result)
AddOpenedCitation ==
    /\ pc = "state"
    /\ StateOps < MaxStateOps
    /\ \E c \in {"c1", "c2"} :
          LET out == open_citation(ChunkDoc(c), c, UserId)
              added == add_opened_citation(opened_citations, citation_counter, out)
          IN  /\ opened_citations' = added.opened_citations
              /\ citation_counter' = added.citation_counter
              /\ opened_log' = Append(opened_log,
                                      added.opened_citations[Len(added.opened_citations)])
    /\ UNCHANGED <<pc, question, mode, constraints, iteration, reprompt_count, json_error_count,
                   final_action, reprompt_message, trace, result, validation, faults,
                   synth_calls, tool_calls_used, search_queries, search_results,
                   notes, dispatches, events>>
    /\ UNCHANGED parserVars

SpecState == InitState /\ [][AddSearchResults \/ AddOpenedCitation]_vars

(***************************************************************************)
(* SpecValidator: validate_agent_state applied to one proposed answer.     *)
(* final_action holds the answer and the known insufficiencies, the state  *)
(* variables what was searched and opened.                                 *)
(***************************************************************************)
InitValidator ==
    /\ pc = "validate"
    /\ mode = "collect"
    /\ question = Question(1, FALSE)
    /\ constraints \in [min_searches : {1, 2}, min_open_citations : {0, 1},
                         requires_exact_quote : BOOLEAN,
                         requires_insufficiency_disclosure : BOOLEAN]
    /\ \E ans \in {NoText}
                  \cup {[markers |-> m, empty |-> FALSE, term |-> t, dont_know |-> dk,
                          quote |-> q, disclosure |-> d] :
                           m \in {<<>>, <<"1">>, <<"7">>}, t \in BOOLEAN, dk \in BOOLEAN,
                           q \in {"none", "c2", "other"}, d \in BOOLEAN},
          n \in {0, 1} :
          final_action = [NoFinal EXCEPT !.answer = ans, !.insufficiencies = JInsuff(n)]
    \* the searches made before the answer: none, "a", or "a" and "b"
    /\ LET one == add_search_results(<<>>, <<>>, "a", SearchIndex("a"))
           two == add_search_results(one.search_queries, one.search_results,
                                     "b", SearchIndex("b"))
       IN  \E srch \in {[search_queries |-> <<>>, search_results |-> <<>>], one, two} :
              /\ search_queries = srch.search_queries
              /\ search_results = srch.search_results
    /\ \E opened \in {<<>>, <<OpenedCitation(open_citation("d1", "c2", UserId), 1)>>} :
          /\ opened_citations = opened
          /\ opened_log = opened
          /\ citation_counter = Len(opened)
    /\ validation = NoValidation
    /\ iteration = 0
    /\ reprompt_count = 0
    /\ json_error_count = 0
    /\ reprompt_message = ""
    /\ tool_calls_used = 0
    /\ notes = <<>>
    /\ trace = <<>>
    /\ result = NoResult
    /\ dispatches = 0
    /\ faults = 0
    /\ synth_calls = 0
    /\ events = <<>>
    /\ response = NoResponse
    /\ action = InvalidAction
    /\ scenario = "any"

\* one call of validate_agent_state
Validate ==
    /\ pc = "validate"
    /\ LET v == validate_agent_state(final_action.answer, constraints,
                     to_snapshot(search_queries, search_results, opened_citations),
                     final_action.insufficiencies.v)
       IN  validation' = [iteration |-> 0, answer |-> final_action.answer,
                          is_valid |-> v.is_valid, errors |-> v.errors,
                          warnings |-> v.warnings]
    /\ pc' = "validated"
    /\ UNCHANGED <<question, mode, constraints, iteration, reprompt_count, json_error_count,
                   final_action, reprompt_message, trace, result, faults, synth_calls,
                   events>>
    /\ UNCHANGED stateVars
    /\ UNCHANGED parserVars

SpecValidator == InitValidator /\ [][Validate]_vars

(***************************************************************************)
(* Properties.                                                             *)
(***************************************************************************)
\* C1: in every state of a run, in collect and in streaming mode, the number
\* of tool invocations made so far - every model-requested dispatch and
\* every safety auto-open - is at most MAX_TOOL_CALLS.
C1_DispatchesWithinBudget == dispatches <= MAX_TOOL_CALLS

\* C2: a Final is the run's accepted final only if the validator judged
\* that same Final valid, or judging it raised reprompt_count to
\* MAX_REPROMPTS; a run that left the loop any other way has no accepted
\* final and its answer comes from the fallback after the loop, not from a
\* Final.
C2_FinalAcceptedOnlyThroughGate ==
    /\ final_action # NoFinal =>
          /\ validation.iteration = final_action.iteration
          /\ validation.answer = final_action.answer
          /\ validation.is_valid \/ reprompt_count = MAX_REPROMPTS
    /\ (pc = "done" /\ final_action = NoFinal) => result.outcome # "final"
    /\ (pc = "done" /\ final_action # NoFinal) =>
          result.outcome = "final" /\ synth_calls = 0

\* a run that returned a Final accepted after MAX_REPROMPTS failed validations
C2_AcceptedAfterMaxReprompts ==
    /\ pc = "done"
    /\ result.outcome = "final"
    /\ final_action # NoFinal
    /\ ~validation.is_valid
    /\ reprompt_count = MAX_REPROMPTS

\* C3: every citation a run returns is a chunk opened during the run, or one
\* of the first three search hits; search-hit citations occur only in runs
\* that opened no chunk.
C3_CitationsOpenedOrTopHits ==
    pc = "done" =>
        \A i \in 1..Len(result.citations) :
            \/ <<result.citations[i].doc_id, result.citations[i].chunk_id>>
                  \in CitationIds(opened_log)
            \/ /\ opened_log = <<>>
               /\ <<result.citations[i].doc_id, result.citations[i].chunk_id>>
                     \in CitationIds(fallback_citations_from_search(search_results))

\* C4: on every exit path, each bracket marker [n] of the returned answer
\* has n equal to a citation number assigned during the run.
C4_MarkersAreAssignedNums ==
    pc = "done" =>
        \A i \in 1..Len(result.markers) : MarkerNum(result.markers[i]) \in OpenedNums(opened_log)

\* C5: a run with a non-empty question makes at most MAX_ITERATIONS loop
\* trips, leaves the loop only by one of its exits (never by an exception),
\* makes at most one synthesis call and returns a result.
C5_RunEndsWithResult ==
    /\ pc # "raised"
    /\ iteration <= MAX_ITERATIONS
    /\ synth_calls <= 1
    /\ pc = "done" => result # NoResult

\* C6: every run with a non-empty question ends by returning exactly one of:
\* the grounded answer of an accepted Final, a synthesized answer, or the
\* literal "I don't know" answer - also when oracle calls fail.
C6_OneOfThreeOutcomes ==
    pc = "done" => result.outcome \in {"final", "synthesized", "dont_know"}

\* C7: whenever a dispatched tool call fails (a step of the loop that makes
\* one model-requested dispatch and counts one failure), an error trace
\* entry and a note are appended and the loop goes on to its next iteration.
C7_ToolFailureRecordedAndSurvived ==
    [][(/\ pc = "loop"
        /\ dispatches' = dispatches + 1
        /\ tool_calls_used' = tool_calls_used + 1
        /\ faults' = faults + 1) =>
          /\ Len(trace') = Len(trace) + 1
          /\ trace'[Len(trace')].type = "error"
          /\ Len(notes') > Len(notes)
          /\ pc' = "loop"]_vars

\* C8: for every model output the parser returns a tool call, a final or an
\* invalid action; no exception leaves it.
C8_ParserNeverRaises == action.action_type \in {"tool_call", "final", "invalid"}

\* C9: the search count the validator reads is the number of distinct
\* queries searched: a repeated query does not increase it.
C9_SearchCountIsDistinctQueries ==
    search_count(search_queries)
        = Cardinality({search_queries[i] : i \in 1..Len(search_queries)})

\* C10: citation numbers are assigned 1, 2, 3, ... in open order, so they
\* are pairwise distinct, increase along the rolling window and are never
\* reused - also after evictions and when a chunk is opened again.
C10_CitationNumsInOpenOrder ==
    /\ \A i \in 1..Len(opened_log) : opened_log[i].citation_num = i
    /\ \A i, j \in 1..Len(opened_citations) :
          i < j => opened_citations[i].citation_num < opened_citations[j].citation_num

\* two chunks have left the window and the first chunk was opened again last
C10_ReopenedAfterEviction ==
    /\ Len(opened_log) = MAX_CONTEXT_CITATIONS + 2
    /\ Len(opened_citations) = MAX_CONTEXT_CITATIONS
    /\ opened_citations[1].citation_num = 3
    /\ opened_log[1].chunk_id = opened_log[Len(opened_log)].chunk_id

\* C11: after any sequence of opens the window holds at most
\* MAX_CONTEXT_CITATIONS entries, and they are the most recently opened
\* chunks in open order, each with the citation number it got when opened.
C11_WindowHoldsLatestOpens ==
    /\ Len(opened_citations) <= MAX_CONTEXT_CITATIONS
    /\ Len(opened_citations) =
          (IF Len(opened_log) < MAX_CONTEXT_CITATIONS THEN Len(opened_log)
           ELSE MAX_CONTEXT_CITATIONS)
    /\ \A i \in 1..Len(opened_citations) :
          /\ opened_citations[i]
                = opened_log[Len(opened_log) - Len(opened_citations) + i]
          /\ opened_citations[i].citation_num
                = Len(opened_log) - Len(opened_citations) + i

\* one chunk has left the window
C11_FirstEviction ==
    /\ Len(opened_log) = MAX_CONTEXT_CITATIONS + 1
    /\ Len(opened_citations) = MAX_CONTEXT_CITATIONS
    /\ opened_citations[1].citation_num = 2
    /\ opened_citations[MAX_CONTEXT_CITATIONS].citation_num = MAX_CONTEXT_CITATIONS + 1

\* C12: a run that returns a result has a non-empty trace that starts with
\* the plan entry; every step leaves the trace's earlier entries in place
\* (entries are only appended); in streaming mode the first event the
\* consumer receives is that plan entry.
C12_TraceStartsWithPlanAppendOnly ==
    [][/\ Len(trace') >= Len(trace)
       /\ SubSeq(trace', 1, Len(trace)) = trace
       /\ pc' = "done" => (Len(trace') >= 1 /\ trace'[1].type = "plan")
       /\ (mode = "stream" /\ events' # <<>>) =>
             (events'[1] = Event("trace", trace'[1]) /\ events'[1].entry.type = "plan")]_vars

\* a finished streaming run whose trace holds more than the plan
C12_StreamedRunDone ==
    /\ pc = "done"
    /\ mode = "stream"
    /\ Len(trace) >= 3
    /\ trace[1].type = "plan"
    /\ events[1].entry.type = "plan"

\* C13: validate_agent_state returns is_valid = false exactly when an error
\* was recorded; every check runs whatever the earlier checks found, so an
\* error is recorded for each failing check; warnings alone leave the
\* result valid.
C13_ErrorsInvalidateWarningsDoNot ==
    pc = "validated" =>
        LET snapshot == to_snapshot(search_queries, search_results, opened_citations)
            answer == final_action.answer
            codes == {validation.errors[i] : i \in 1..Len(validation.errors)}
        IN  /\ validation.is_valid <=> validation.errors = <<>>
            /\ answer.empty <=> "EMPTY_ANSWER" \in codes
            /\ (constraints.min_searches > 1
                  /\ snapshot.search_count < constraints.min_searches)
                 <=> "MIN_SEARCHES_UNMET" \in codes
            /\ (constraints.min_open_citations > 0
                  /\ snapshot.open_citation_count < constraints.min_open_citations)
                 <=> "MIN_OPEN_CITATIONS_UNMET" \in codes
            /\ (constraints.requires_exact_quote /\ snapshot.open_citation_count = 0)
                 <=> "EXACT_QUOTE_NO_SOURCE" \in codes
            /\ (answer.term /\ (snapshot.corpus_empty \/ ~snapshot.corpus_has_term))
                 <=> codes \cap {"UNGROUNDED_CLAIM", "UNGROUNDED_CLAIM_NO_CONTEXT"} # {}

\* a valid result that carries the warnings of four different checks
C13_ValidWithWarnings ==
    /\ pc = "validated"
    /\ validation.is_valid
    /\ {"HALLUCINATED_CITATION", "QUOTE_NOT_VERBATIM", "UNEXPLAINED_DONT_KNOW",
         "MISSING_INSUFFICIENCY_DISCLOSURE"}
          \subseteq {validation.warnings[i] : i \in 1..Len(validation.warnings)}

\* ---------------------------------------------------------------------------
\* Planner (planner.py).  A step is modelled by its length class after
\* strip(): "blank" (empty), "short" (< 5 characters), "ok" (5..500) or
\* "long" (> 500); validate_plan cuts a long step to 500 characters + "...",
\* written "cut".  A reply's content is modelled by what each of the four
\* parsing strategies finds in it.
\* ---------------------------------------------------------------------------
MIN_PLAN_STEPS == 2
MAX_PLAN_STEPS == 5
MaxPlanLines == 6

DEFAULT_PLAN ==
    <<"Search documents for relevant information",
      "Open the best matching citations",
      "Synthesize answer with citations">>

Plan(steps, is_fallback) == [steps |-> steps, is_fallback |-> is_fallback, raised |-> FALSE]

\* [s.strip() for s in steps if s.strip()]
Stripped(steps) == SelectSeq(steps, LAMBDA s : s # "blank")

\* parse_plan_response: JSON array of strings, then numbered list, then
\* bullets, then plain lines; ok = FALSE is the ValueError
parse_plan_response(content) ==
    IF content.json = "list"
    THEN [ok |-> TRUE, steps |-> Stripped(content.json_steps)]
    ELSE IF Len(content.numbered) >= MIN_PLAN_STEPS
    THEN [ok |-> TRUE, steps |-> Stripped(content.numbered)]
    ELSE IF Len(content.bullets) >= MIN_PLAN_STEPS
    THEN [ok |-> TRUE, steps |-> Stripped(content.bullets)]
    ELSE IF Len(content.lines) >= MIN_PLAN_STEPS
    THEN [ok |-> TRUE, steps |-> content.lines]
    ELSE [ok |-> FALSE, steps |-> <<>>]

validate_plan_untruncated(steps) ==
    LET kept == Stripped(steps)
    IN  IF Len(kept) < MIN_PLAN_STEPS THEN [ok |-> FALSE, steps |-> <<>>]
        ELSE IF \E i \in 1..Len(kept) : kept[i] = "short" THEN [ok |-> FALSE, steps |-> <<>>]
        ELSE [ok |-> TRUE,
              steps |-> [i \in 1..Len(kept) |-> IF kept[i] = "long" THEN "cut" ELSE kept[i]]]

validate_plan(steps) ==
    LET kept == Stripped(steps)
        cut  == IF Len(kept) > MAX_PLAN_STEPS THEN SubSeq(kept, 1, MAX_PLAN_STEPS) ELSE kept
    IN  IF Len(kept) < MIN_PLAN_STEPS THEN [ok |-> FALSE, steps |-> <<>>]
        ELSE IF \E i \in 1..Len(cut) : cut[i] = "short" THEN [ok |-> FALSE, steps |-> <<>>]
        ELSE [ok |-> TRUE,
              steps |-> [i \in 1..Len(cut) |-> IF cut[i] = "long" THEN "cut" ELSE cut[i]]]

\* generate_plan: every exception of the try block (LLMError, ValueError,
\* PlanningError, anything else) ends in the fallback plan
generate_plan(asked, reply) ==
    LET parsed    == parse_plan_response(reply.content)
        validated == validate_plan(parsed.steps)
    IN  IF asked \in {"", " "} THEN Plan(DEFAULT_PLAN, TRUE)
        ELSE IF reply.status # "ok" THEN Plan(DEFAULT_PLAN, TRUE)
        ELSE IF reply.empty THEN Plan(DEFAULT_PLAN, TRUE)
        ELSE IF ~parsed.ok THEN Plan(DEFAULT_PLAN, TRUE)
        ELSE IF ~validated.ok THEN Plan(DEFAULT_PLAN, TRUE)
        ELSE Plan(validated.steps, FALSE)

\* the planner on its own: response holds the question and the oracle's
\* reply, result the returned Plan
InitPlanner ==
    /\ pc = "plan"
    /\ LET StepSeqs(tokens) == UNION {[1..k -> tokens] : k \in 0..MaxPlanLines}
           Found(json, json_steps, numbered, bullets, lines) ==
               [json |-> json, json_steps |-> json_steps, numbered |-> numbered,
                bullets |-> bullets, lines |-> lines]
           NotJson == {"none", "bad", "nonstr"}
           Contents ==
               {Found("list", s, <<>>, <<>>, <<>>) :
                    s \in StepSeqs({"blank", "short", "ok", "long"})}
               \cup {Found(j, <<>>, n, b, l) : j \in NotJson,
                         n \in StepSeqs({"blank", "short", "ok"}),
                         b \in {<<>>, <<"ok", "ok", "ok">>},
                         l \in {<<>>, <<"ok", "long">>}}
               \cup {Found(j, <<>>, <<>>, b, l) : j \in NotJson,
                         b \in StepSeqs({"blank", "short", "ok"}),
                         l \in {<<>>, <<"ok", "long">>}}
               \cup {Found(j, <<>>, <<>>, <<>>, l) : j \in NotJson, l \in StepSeqs({"ok", "long"})}
           Nothing == Found("none", <<>>, <<>>, <<>>, <<>>)
           Replies ==
               {[status |-> "ok", empty |-> FALSE, content |-> c] : c \in Contents}
               \cup {[status |-> s, empty |-> e, content |-> Nothing] :
                         s \in {"ok", "llm_error", "exception"}, e \in {TRUE}}
       IN  response \in [question : {"", " ", "q"}, reply : Replies]
    /\ action = InvalidAction
    /\ scenario = "any"
    /\ RunIdle
    /\ search_queries = <<>>
    /\ search_results = <<>>
    /\ opened_citations = <<>>
    /\ citation_counter = 0
    /\ opened_log = <<>>

\* one call of generate_plan(question)
GeneratePlan ==
    /\ pc = "plan"
    /\ result' = generate_plan(response.question, response.reply)
    /\ pc' = IF result'.raised THEN "raised" ELSE "planned"
    /\ UNCHANGED <<question, mode, constraints, iteration, reprompt_count, json_error_count,
                   final_action, reprompt_message, trace, validation, faults,
                   synth_calls, events>>
    /\ UNCHANGED stateVars
    /\ UNCHANGED parserVars

SpecPlanner == InitPlanner /\ [][GeneratePlan]_vars

\* C14: generate_plan never raises and always returns 2..5 steps; with fewer
\* than 2 usable steps it returns the canonical three-step plan flagged as
\* fallback, and a plan whose steps come from the oracle is not flagged.
C14_PlanAlwaysValid ==
    /\ pc # "raised"
    /\ pc = "planned" =>
          LET parsed == parse_plan_response(response.reply.content)
              usable == IF response.question = "q" /\ response.reply.status = "ok"
                           /\ ~response.reply.empty /\ parsed.ok
                        THEN Len(parsed.steps) ELSE 0
          IN  /\ Len(result.steps) >= MIN_PLAN_STEPS
              /\ Len(result.steps) <= MAX_PLAN_STEPS
              /\ Len(DEFAULT_PLAN) = 3
              /\ usable < MIN_PLAN_STEPS => result = Plan(DEFAULT_PLAN, TRUE)
              /\ result.is_fallback => result.steps = DEFAULT_PLAN
              /\ ~result.is_fallback =>
                    /\ \A i \in 1..Len(result.steps) : result.steps[i] \in {"ok", "cut"}
                    /\ usable >= Len(result.steps)

\* six oracle steps cut to five
C14_TruncatedOraclePlan ==
    /\ pc = "planned"
    /\ ~result.is_fallback
    /\ Len(result.steps) = MAX_PLAN_STEPS
    /\ Len(response.reply.content.json_steps) = MaxPlanLines

\* ---------------------------------------------------------------------------
\* Constraint analyzer (constraints.py).  A prompt is modelled by what each
\* pattern group of the analyzer finds in it.
\* ---------------------------------------------------------------------------
MaxPromptItems == 6

PromptConstraints ==
    [min_searches |-> 1, required_search_topics |-> <<>>, min_open_citations |-> 0,
     requires_exact_quote |-> FALSE, exact_quote_indicators |-> <<>>,
     requires_conflict_resolution |-> FALSE, conflict_resolution_rule |-> "none",
     required_sections |-> <<>>, requires_insufficiency_disclosure |-> FALSE,
     estimated_min_answer_length |-> 50, is_complex_query |-> FALSE]

WORD_TO_NUM(word) == IF word = "two" THEN 2 ELSE IF word = "ten" THEN 10 ELSE 1

SearchCountRaw(search) == IF search.kind = "num" THEN search.n ELSE 2

\* SEPARATE_SEARCH_PATTERNS: max(2, int(group 1)), 2 when the pattern has no
\* number or int() raises ValueError
SearchCount(search) ==
    IF search.kind = "num" THEN (IF search.n > 2 THEN search.n ELSE 2) ELSE 2

\* OPEN_CITATION_PATTERNS: max(1, int(group 1)), a number word, or 1
OpenCount(open) ==
    IF open.kind = "num" THEN (IF open.n > 1 THEN open.n ELSE 1)
    ELSE IF open.kind = "word" THEN WORD_TO_NUM(open.word)
    ELSE 1

analyze_constraints(prompt) ==
    LET Most(a, b) == IF a > b THEN a ELSE b
        Least(a, b) == IF a < b THEN a ELSE b
        Items(n, item) == [i \in 1..n |-> item]
        searched == IF prompt.search.kind = "none" THEN 1 ELSE SearchCount(prompt.search)
        topic_count == Most(prompt.quoted, prompt.listed)
        min_searches == IF topic_count > 1
                        THEN Most(searched, Least(topic_count, 5)) ELSE searched
        opens == IF prompt.open.kind = "none" THEN 0 ELSE OpenCount(prompt.open)
        min_open == IF prompt.exact THEN Most(opens, 1) ELSE opens
        sectioned == prompt.sections > 0
        length == 100
                  + (IF sectioned THEN prompt.sections * 150 ELSE 0)
                  + (IF prompt.exact
                     THEN (IF prompt.quote_types > 0 THEN 100 * prompt.quote_types ELSE 100)
                     ELSE 0)
                  + (IF prompt.conflict # "none" THEN 100 ELSE 0)
                  + (IF min_searches > 2 THEN 100 ELSE 0)
                  + (IF prompt.keyword THEN 200 ELSE 0)
    IN  [min_searches |-> min_searches,
         required_search_topics |-> Items(prompt.quoted, "topic"),
         min_open_citations |-> min_open,
         requires_exact_quote |-> prompt.exact,
         exact_quote_indicators |-> Items(prompt.quote_types, "quote type"),
         requires_conflict_resolution |-> prompt.conflict # "none",
         conflict_resolution_rule |-> IF prompt.conflict = "unnamed" THEN "none"
                                      ELSE prompt.conflict,
         required_sections |-> Items(prompt.sections, "section"),
         requires_insufficiency_disclosure |-> prompt.insufficiency,
         estimated_min_answer_length |-> Least(length, 2000),
         is_complex_query |-> sectioned \/ min_searches > 2 \/ prompt.keyword]

\* the prompt in which no pattern of the analyzer matches ("" is one)
PlainPrompt ==
    [search |-> [kind |-> "none", n |-> 0], quoted |-> 0, listed |-> 0,
     open |-> [kind |-> "none", n |-> 0, word |-> ""], exact |-> FALSE,
     quote_types |-> 0, conflict |-> "none", sections |-> 0,
     insufficiency |-> FALSE, keyword |-> FALSE]

\* the analyzer on its own: response holds the prompt, constraints the record
\* it returns
InitAnalyzer ==
    /\ pc = "analyze"
    /\ response \in
          [search : {[kind |-> "none", n |-> 0], [kind |-> "plain", n |-> 0],
                     [kind |-> "huge", n |-> 0]}
                    \cup {[kind |-> "num", n |-> n] : n \in {0, 1, 3, 9}},
           quoted : {0, 1, 2, MaxPromptItems},
           listed : {0, 1, 3},
           open : {[kind |-> "none", n |-> 0, word |-> ""],
                   [kind |-> "plain", n |-> 0, word |-> ""],
                   [kind |-> "num", n |-> 0, word |-> ""],
                   [kind |-> "num", n |-> 4, word |-> ""],
                   [kind |-> "word", n |-> 0, word |-> "two"],
                   [kind |-> "word", n |-> 0, word |-> "many"]},
           exact : BOOLEAN,
           quote_types : {0, 2},
           conflict : {"none", "newest", "unnamed"},
           sections : {0, 2, MaxPromptItems * 2 + 1},
           insufficiency : BOOLEAN,
           keyword : BOOLEAN]
    /\ action = InvalidAction
    /\ scenario = "any"
    /\ mode = "collect"
    /\ question = Question(1, FALSE)
    /\ constraints = PromptConstraints
    /\ iteration = 0
    /\ reprompt_count = 0
    /\ json_error_count = 0
    /\ final_action = NoFinal
    /\ reprompt_message = ""
    /\ tool_calls_used = 0
    /\ notes = <<>>
    /\ trace = <<>>
    /\ result = NoResult
    /\ validation = NoValidation
    /\ dispatches = 0
    /\ faults = 0
    /\ synth_calls = 0
    /\ events = <<>>
    /\ search_queries = <<>>
    /\ search_results = <<>>
    /\ opened_citations = <<>>
    /\ citation_counter = 0
    /\ opened_log = <<>>

\* one call of analyze_constraints(prompt)
Analyze ==
    /\ pc = "analyze"
    /\ constraints' = analyze_constraints(response)
    /\ pc' = "analyzed"
    /\ UNCHANGED <<question, mode, iteration, reprompt_count, json_error_count, final_action,
                   reprompt_message, trace, result, validation, faults, synth_calls,
                   events>>
    /\ UNCHANGED stateVars
    /\ UNCHANGED parserVars

SpecAnalyzer == InitAnalyzer /\ [][Analyze]_vars

\* C15: analyze_constraints returns a record for every prompt, with
\* min_searches >= 1 and min_open_citations >= 0; a prompt in which no
\* trigger phrase occurs (the empty string included) gets the defaults:
\* min_searches 1, min_open_citations 0, every flag false, every list empty.
C15_AnalyzerTotalWithDefaults ==
    pc = "analyzed" =>
        /\ DOMAIN constraints = DOMAIN PromptConstraints
        /\ constraints.min_searches >= 1
        /\ constraints.min_open_citations >= 0
        /\ response = PlainPrompt =>
              constraints = [PromptConstraints EXCEPT !.estimated_min_answer_length = 100]

\* "at least 0 searches": the explicit number is below the floor of 2
C15_ZeroSearchesAsked ==
    /\ pc = "analyzed"
    /\ response.search = [kind |-> "num", n |-> 0]
    /\ response.quoted = 0
    /\ constraints.min_searches = 2

\* ---------------------------------------------------------------------------
\* Entry points (views.py, executor_v2.py): what happens to the question
\* between the request and the first loop iteration.
\* ---------------------------------------------------------------------------
\* AgentRunView.post / AgentStreamView.post: the same validation in both
ViewPost ==
    /\ pc = "request"
    /\ IF IsBlank(question)
       THEN pc' = "http_400" /\ UNCHANGED question
       ELSE IF StripQuestion(question).len > MAX_QUESTION_LENGTH
       THEN pc' = "http_400" /\ question' = StripQuestion(question)
       ELSE pc' = "start" /\ question' = StripQuestion(question)
    /\ UNCHANGED <<mode, constraints, iteration, reprompt_count, json_error_count,
                   final_action, reprompt_message, trace, result, validation, faults,
                   synth_calls, events>>
    /\ UNCHANGED stateVars
    /\ UNCHANGED parserVars

\* the executor called directly (pc = "start") or through its endpoint
\* (pc = "request"); response keeps the question as it was received
InitQuestion ==
    /\ pc \in {"request", "start"}
    /\ mode \in {"collect", "stream"}
    /\ constraints \in ConstraintsSet
    /\ question \in {Question(n, pad) :
                        n \in {0, 1, MAX_QUESTION_LENGTH - 1, MAX_QUESTION_LENGTH,
                               MAX_QUESTION_LENGTH + 1, 2 * MAX_QUESTION_LENGTH},
                        pad \in BOOLEAN}
    /\ response = question
    /\ action = InvalidAction
    /\ scenario = "any"
    /\ iteration = 0
    /\ reprompt_count = 0
    /\ json_error_count = 0
    /\ final_action = NoFinal
    /\ reprompt_message = ""
    /\ tool_calls_used = 0
    /\ notes = <<>>
    /\ trace = <<>>
    /\ result = NoResult
    /\ validation = NoValidation
    /\ dispatches = 0
    /\ faults = 0
    /\ synth_calls = 0
    /\ events = <<>>
    /\ search_queries = <<>>
    /\ search_results = <<>>
    /\ opened_citations = <<>>
    /\ citation_counter = 0
    /\ opened_log = <<>>

SpecQuestion == InitQuestion /\ [][ViewPost \/ RejectQuestion \/ StartRun]_vars

\* C16: a run with an empty or whitespace-only question fails before a plan
\* is generated, before any oracle or tool call, before any trace entry.
C16_BlankQuestionFailsFirst ==
    question.len = 0 =>
        /\ pc \in {"start", "rejected"}
        /\ trace = <<>>
        /\ events = <<>>
        /\ iteration = 0
        /\ dispatches = 0
        /\ synth_calls = 0
        /\ result = NoResult

\* a whitespace-only question given to the streaming executor
C16_WhitespaceRejected ==
    /\ pc = "rejected"
    /\ question = Question(0, TRUE)
    /\ mode = "stream"

\* C17: a question of trimmed length MAX_QUESTION_LENGTH is processed
\* unchanged, and one of MAX_QUESTION_LENGTH + 1 is accepted and cut to its
\* first MAX_QUESTION_LENGTH characters, through the executor and through
\* both endpoints alike.
C17_LongQuestionTruncatedNotRejected ==
    response.len \in {MAX_QUESTION_LENGTH, MAX_QUESTION_LENGTH + 1} =>
        /\ pc \notin {"http_400", "rejected"}
        /\ pc = "loop" => question = Question(MAX_QUESTION_LENGTH, FALSE)

\* C18: every opened citation, asked for by the model or opened by the run
\* itself, is a chunk of the document it names and that document is owned by
\* the run's user; an open of another user's chunk leaves nothing behind.
C18_OpenedCitationsOwnedByUser ==
    /\ \A i \in 1..Len(opened_citations) :
          /\ DocOwner(opened_citations[i].doc_id) = UserId
          /\ ChunkDoc(opened_citations[i].chunk_id) = opened_citations[i].doc_id
    /\ \A i \in 1..Len(opened_log) :
          /\ DocOwner(opened_log[i].doc_id) = UserId
          /\ ChunkDoc(opened_log[i].chunk_id) = opened_log[i].doc_id

\* the model asked for another user's chunk after opening one of its own,
\* and the loop went on
C18_AccessDeniedAndSurvived ==
    /\ pc = "loop"
    /\ \E i \in 1..Len(trace) : trace[i] = TraceEntry("error", "open_citation", "access")
    /\ \E i \in 1..Len(notes) : notes[i] = "Access denied"
    /\ Len(opened_citations) = 1
    /\ Len(opened_log) = 1

\* C19: in streaming mode every trace event reaches the consumer when the
\* operation that produced its entry happens, in the order of those
\* operations; a finished or failed request has emitted exactly one terminal
\* event (complete or error), and nothing is emitted after it.
C19_StreamInOrderOneTerminal ==
    [][mode = "stream" =>
          LET new      == SubSeq(events', Len(events) + 1, Len(events'))
              sent     == SelectSeq(new, LAMBDA e : e.kind = "trace")
              made     == Appended
              terminal == {i \in 1..Len(events') : events'[i].kind \in {"complete", "error"}}
          IN  /\ Len(events') >= Len(events)
              /\ SubSeq(events', 1, Len(events)) = events
              /\ \E at \in [1..Len(sent) -> 1..Len(made)] :
                    /\ \A i \in 1..Len(sent) : made[at[i]] = sent[i].entry
                    /\ \A i, j \in 1..Len(sent) : i < j => at[i] < at[j]
              /\ terminal \subseteq {Len(events')}
              /\ pc' \in {"done", "raised"} => terminal = {Len(events')}
              /\ (\E i \in 1..Len(events) : events[i].kind \in {"complete", "error"})
                    => events' = events]_vars

InitScripted ==
    /\ pc = "start"
    /\ mode \in {"collect", "stream"}
    /\ question = Question(1, FALSE)
    /\ scenario \in {"early_final", "compliant", "tools_only", "one_hit", "demanding"}
    \* the demanding scenario asks for five tool calls or for four opens
    /\ constraints \in IF scenario = "early_final" THEN {MultiStepConstraints}
                       ELSE IF scenario = "demanding"
                       THEN {MultiStepConstraints,
                             [MultiStepConstraints EXCEPT !.min_searches = 5,
                                                          !.min_open_citations = 0],
                             [MultiStepConstraints EXCEPT !.min_searches = 1,
                                                          !.min_open_citations = 4]}
                       ELSE ConstraintsSet
    /\ iteration = 0
    /\ reprompt_count = 0
    /\ json_error_count = 0
    /\ final_action = NoFinal
    /\ reprompt_message = ""
    /\ tool_calls_used = 0
    /\ search_queries = <<>>
    /\ search_results = <<>>
    /\ opened_citations = <<>>
    /\ citation_counter = 0
    /\ notes = <<>>
    /\ trace = <<>>
    /\ result = NoResult
    /\ validation = NoValidation
    /\ dispatches = 0
    /\ opened_log = <<>>
    \* the tools-only and the one-hit scenario have failures injected
    /\ faults = IF scenario \in {"tools_only", "one_hit"} THEN 0 ELSE MaxFaults
    /\ synth_calls = 0
    /\ response = NoResponse
    /\ action = InvalidAction
    /\ events = <<>>

SpecScripted ==
    InitScripted
        /\ [][StartRun \/ ToolTurn \/ FinalAutoOpens \/ FinalValidated \/ NoContext
                  \/ Synthesize \/ SynthesisFails \/ GroundFinal]_vars

\* C21: with constraints asking for three searches and two opened citations,
\* an oracle that searches once and then gives the same Final on every turn
\* has that Final judged with MIN_SEARCHES_UNMET and MIN_OPEN_CITATIONS_UNMET,
\* the trace holds a validation entry and a reprompt entry, and the run's
\* answer is not that Final's answer.
C21_EarlyFinalNeverReturned ==
    (scenario = "early_final" /\ pc = "done") =>
        /\ \E i \in 1..Len(validation.errors) : validation.errors[i] = "MIN_SEARCHES_UNMET"
        /\ \E i \in 1..Len(validation.errors) :
              validation.errors[i] = "MIN_OPEN_CITATIONS_UNMET"
        /\ \E i \in 1..Len(trace) : trace[i].type = "validation"
        /\ \E i \in 1..Len(trace) : trace[i].type = "reprompt"
        /\ result.outcome # "final"

\* the opened chunks a Final refers to, by marker or by used_citations
ReferencedIds(act, opened) ==
    {<<act.used_citations.v[i].docId, act.used_citations.v[i].chunkId>> :
        i \in 1..Len(act.used_citations.v)}
    \cup {<<WithNum(opened, MarkerNum(act.answer.v.markers[i])).doc_id,
            WithNum(opened, MarkerNum(act.answer.v.markers[i])).chunk_id>> :
            i \in {j \in 1..Len(act.answer.v.markers) :
                      MarkerNum(act.answer.v.markers[j]) \in OpenedNums(opened)}}

\* the Final refers only to opened chunks
RefersOnlyToOpened(act, opened) ==
    /\ \A i \in 1..Len(act.answer.v.markers) :
          MarkerNum(act.answer.v.markers[i]) \in OpenedNums(opened)
    /\ \A i \in 1..Len(act.used_citations.v) :
          <<act.used_citations.v[i].docId, act.used_citations.v[i].chunkId>>
              \in CitationIds(opened)

\* the state right after the first validation of the Final act, reached by
\* searches and opens that satisfy the constraints
FirstValidationOf(act) ==
    /\ scenario = "compliant"
    /\ iteration > 0
    /\ validation.iteration = iteration
    /\ validation.answer = act.answer.v
    /\ reprompt_count = (IF validation.is_valid THEN 0 ELSE 1)
    /\ search_count(search_queries) >= constraints.min_searches
    /\ Len(opened_citations) >= constraints.min_open_citations
    /\ RefersOnlyToOpened(act, opened_citations)

\* accepted at once, never reprompted, no synthesis, markers kept, the
\* citations are the referenced opened chunks, each once
AcceptedAsGiven(act) ==
    /\ validation.is_valid
    /\ reprompt_count = 0
    /\ \A i \in 1..Len(trace) : trace[i].type # "reprompt"
    /\ final_action # NoFinal
    /\ synth_calls = 0
    /\ pc \in {"post", "done"}
    /\ pc = "done" =>
          /\ result.outcome = "final"
          /\ result.markers = act.answer.v.markers
          /\ CitationIds(result.citations) = ReferencedIds(act, opened_citations)
          /\ Len(result.citations) = Cardinality(ReferencedIds(act, opened_citations))

C23_ToolsOnlyEndsInSynthesis ==
    (scenario = "tools_only" /\ pc = "done" /\ faults = 0) =>
        /\ dispatches = MAX_TOOL_CALLS
        /\ IF opened_citations = <<>>
           THEN result.outcome = "dont_know"
           ELSE /\ result.outcome = "synthesized"
                /\ synth_calls = 1
                /\ CitationIds(result.citations) \subseteq CitationIds(opened_citations)
        /\ result.insufficiencies > 0

\* C24: the first Invalid action of a run sets the corrective reprompt and
\* the loop continues; the second one leaves the loop with no accepted Final,
\* so that the synthesis fallback follows; no Invalid action changes
\* tool_calls_used or reprompt_count.
C24_InvalidActionHandling ==
    [][json_error_count' # json_error_count =>
          /\ json_error_count' = json_error_count + 1
          /\ tool_calls_used' = tool_calls_used
          /\ reprompt_count' = reprompt_count
          /\ json_error_count' = 1 => (reprompt_message' = "invalid_json" /\ pc' = "loop")
          /\ json_error_count' = 2 => (pc' = "post" /\ final_action' = NoFinal)
          /\ json_error_count' <= 2]_vars

\* a run that was left on its second Invalid action and then synthesized
C24_SecondInvalidSynthesized ==
    /\ pc = "done"
    /\ json_error_count = 2
    /\ result.outcome = "synthesized"
    /\ tool_calls_used > 0

\* C25: an unparseable reply ends the loop only when the reply before it was
\* unparseable too; one that follows a successfully parsed action sets the
\* corrective reprompt and the loop continues.
C25_OnlyConsecutiveInvalidEndLoop ==
    [][(json_error_count' # json_error_count /\ reprompt_message # "invalid_json") =>
          (pc' = "loop" /\ reprompt_message' = "invalid_json")]_vars

\* the number of trace entries of a type
CountEntries(type) == Cardinality({i \in 1..Len(trace) : trace[i].type = type})

\* C26: every failed validation adds one to reprompt_count and one validation
\* entry to the trace; below MAX_REPROMPTS it is followed by one reprompt
\* entry and the loop goes on, at MAX_REPROMPTS the Final is accepted and the
\* loop is left; a trace holds at most MAX_REPROMPTS validation entries and
\* at most MAX_REPROMPTS - 1 reprompt entries.
C26_RepromptAccounting ==
    /\ CountEntries("validation") = reprompt_count
    /\ reprompt_count <= MAX_REPROMPTS
    /\ CountEntries("reprompt") =
          (IF reprompt_count < MAX_REPROMPTS THEN reprompt_count ELSE MAX_REPROMPTS - 1)
    /\ reprompt_count = MAX_REPROMPTS => (final_action # NoFinal /\ pc # "loop")
    /\ (/\ iteration > 0
        /\ validation.iteration = iteration
        /\ ~validation.is_valid
        /\ reprompt_count < MAX_REPROMPTS) => (pc = "loop" /\ final_action = NoFinal)

\* C27: a Final that arrives while nothing is opened, search results exist
\* and tool budget remains makes the executor auto-open top hits, set the
\* "I have now opened N citation(s)" reprompt and continue; that Final is
\* neither validated nor accepted in that iteration.
C27_AutoOpenDefersValidation ==
    [][(/\ pc = "loop"
        /\ AutoOpenCondition(Cur)
        /\ Len(trace') > Len(trace)
        /\ trace'[Len(trace) + 1] = TraceEntry("tool_call", "auto_open", "")) =>
          /\ Len(opened_citations') > 0
          /\ reprompt_message' = "auto_opened"
          /\ pc' = "loop"
          /\ validation' = validation
          /\ reprompt_count' = reprompt_count
          /\ final_action' = final_action]_vars

\* C28: the safety auto-open calls open_citation on at most three of the top
\* search hits and on no more hits than the remaining tool budget, and every
\* such call, successful or failed, adds one to tool_calls_used.
C28_AutoOpenCallsCounted ==
    [][(/\ pc = "loop"
        /\ AutoOpenCondition(Cur)
        /\ Len(trace') > Len(trace)
        /\ trace'[Len(trace) + 1] = TraceEntry("tool_call", "auto_open", "")) =>
          /\ dispatches' - dispatches <= 3
          /\ dispatches' - dispatches <= remaining_tool_budget(tool_calls_used)
          /\ tool_calls_used' - tool_calls_used = dispatches' - dispatches]_vars

\* the "type" field as the parser reads it ("" when missing)
TypeRead(data) == IF data.type.k = "str" THEN Lower(data.type.v) ELSE ""

\* C29: every tool_call action the parser returns, with an explicit type or
\* with the type inferred from the presence of "tool" and "input", names
\* search_docs or open_citation and has an object as input; another tool
\* name or an input that is no object yields an invalid action.
C29_ToolCallsWellFormed ==
    pc = "parsed" =>
        /\ action.action_type = "tool_call" =>
              (action.tool \in KnownTools /\ action.input.k = "obj")
        /\ (/\ response.json = "obj"
            /\ \/ TypeRead(response.data) = "tool_call"
               \/ /\ TypeRead(response.data) # "final"
                  /\ response.data.tool.k # "absent"
                  /\ response.data.input.k # "absent"
                  /\ response.data.answer.k = "absent"
            /\ \/ ~(response.data.tool.k = "str" /\ response.data.tool.v \in KnownTools)
               \/ response.data.input.k \notin {"obj", "absent"})
              => action.action_type = "invalid"

\* C30: every final action the parser returns, with an explicit or an
\* inferred type, has a string as answer and lists as used_citations and
\* insufficiencies, empty ones where the field is missing or no list; an
\* answer that is no string yields an invalid action.
C30_FinalsWellFormed ==
    pc = "parsed" =>
        /\ action.action_type = "final" =>
              /\ action.answer.k = "str"
              /\ action.used_citations.k = "list"
              /\ action.insufficiencies.k = "list"
              /\ response.data.used_citations.k # "list" => action.used_citations = JRefs(<<>>)
              /\ response.data.insufficiencies.k # "list" =>
                    action.insufficiencies = JInsuff(0)
        /\ (/\ response.json = "obj"
            /\ action.action_type # "tool_call"
            /\ \/ TypeRead(response.data) = "final"
               \/ TypeRead(response.data) # "tool_call"
            /\ response.data.answer.k \notin {"str", "absent"})
              => action.action_type = "invalid"

(***************************************************************************)
(* SpecGrounder: ground_citations_from_state applied to an accepted Final  *)
(* on an AgentState built by any sequence of opens.                        *)
(***************************************************************************)
\* cleaned_answer, grounded = ground_citations_from_state(final_action, state)
GroundAccepted ==
    /\ pc = "state"
    /\ \E markers \in {<<"1">>, <<"1", "2">>, <<"7">>},
          refs \in {<<>>, <<[docId |-> "d1", chunkId |-> "c1"]>>} :
          LET g == ground_citations_from_state(markers, refs, opened_citations)
          IN  /\ final_action' = [NoFinal EXCEPT !.answer = Text(markers, FALSE),
                                                 !.used_citations = JRefs(refs)]
              /\ result' = [outcome |-> "final", markers |-> g.markers,
                            citations |-> g.citations, insufficiencies |-> 0]
    /\ pc' = "grounded"
    /\ UNCHANGED <<question, mode, constraints, iteration, reprompt_count, json_error_count,
                   reprompt_message, trace, validation, faults, synth_calls, events>>
    /\ UNCHANGED stateVars
    /\ UNCHANGED parserVars

SpecGrounder == InitState /\ [][AddOpenedCitation \/ GroundAccepted]_vars

\* C31: grounding an accepted Final resolves a marker [n] and a
\* used_citations entry that refer to a chunk opened earlier in the run, also
\* one since evicted from the rolling window, to a grounded citation, and
\* keeps the marker.
C31_EvictedChunksStillGrounded ==
    pc = "grounded" =>
        /\ \A i \in 1..Len(final_action.answer.markers) :
              LET m == final_action.answer.markers[i]
              IN  MarkerNum(m) \in OpenedNums(opened_log) =>
                     /\ \E j \in 1..Len(result.markers) : result.markers[j] = m
                     /\ <<WithNum(opened_log, MarkerNum(m)).doc_id,
                          WithNum(opened_log, MarkerNum(m)).chunk_id>>
                            \in CitationIds(result.citations)
        /\ \A i \in 1..Len(final_action.used_citations.v) :
              LET key == <<final_action.used_citations.v[i].docId,
                           final_action.used_citations.v[i].chunkId>>
              IN  key \in CitationIds(opened_log) => key \in CitationIds(result.citations)

\* C32: a run whose loop ended without an accepted Final, with no search hit
\* and no opened chunk, returns the literal "I don't know based on the
\* provided documents." with no citation, and the synthesis oracle was never
\* called.
C32_NothingGatheredDontKnow ==
    (/\ pc = "done"
     /\ final_action = NoFinal
     /\ search_results = <<>>
     /\ opened_citations = <<>>)
        => /\ result.outcome = "dont_know"
           /\ result.markers = <<>>
           /\ result.citations = <<>>
           /\ synth_calls = 0

\* a run of nothing but garbage replies that ended with the literal answer
C32_GarbageOnlyRunEnded ==
    /\ pc = "done"
    /\ json_error_count = 2
    /\ iteration = 2
    /\ dispatches = 0
    /\ result.outcome = "dont_know"

\* the accepted Final's markers name every opened citation number and at
\* least one number that is none
CitesAllAndMore(markers, opened) ==
    /\ opened # <<>>
    /\ \A n \in 1..Len(opened) : \E i \in 1..Len(markers) : MarkerNum(markers[i]) = n
    /\ \E i \in 1..Len(markers) : MarkerNum(markers[i]) \notin 1..Len(opened)

\* C33: a Final without validation errors whose answer holds the markers
\* [1]..[k] of the k opened chunks and a marker [m] with m outside 1..k
\* passes validation with a HALLUCINATED_CITATION warning; the returned
\* answer has lost every [m] and kept the other markers, and the citations
\* are exactly the k opened chunks.
C33_HallucinatedMarkerStripped ==
    (/\ pc = "done"
     /\ final_action # NoFinal
     /\ validation.iteration = iteration
     /\ validation.is_valid
     /\ CitesAllAndMore(final_action.answer.markers, opened_citations))
        => /\ \E i \in 1..Len(validation.warnings) :
                 validation.warnings[i] = "HALLUCINATED_CITATION"
           /\ result.outcome = "final"
           /\ LET Valid(t) == MarkerNum(t) \in 1..Len(opened_citations)
              IN  result.markers = SelectSeq(final_action.answer.markers, Valid)
           /\ CitationIds(result.citations) = CitationIds(opened_citations)
           /\ Len(result.citations) = Cardinality(CitationIds(opened_citations))

\* this step validated a Final whose answer holds a suspicious term found in
\* no opened chunk and no search snippet
UngroundedFinalValidated ==
    /\ validation'.iteration = iteration + 1
    /\ iteration' = iteration + 1
    /\ validation'.answer.term
    /\ ~to_snapshot(search_queries', search_results', opened_citations').corpus_has_term

\* the validation reported the ungrounded claim with the code that fits
UngroundedClaimReported(v, snapshot) ==
    /\ ~v.is_valid
    /\ \E i \in 1..Len(v.errors) :
          v.errors[i] = (IF snapshot.corpus_empty THEN "UNGROUNDED_CLAIM_NO_CONTEXT"
                         ELSE "UNGROUNDED_CLAIM")

MkId(p, m, t) == [i \in 1..20 |-> IF i <= 8 THEN p ELSE IF i <= 14 THEN m ELSE t]

\* the search results: (docId, chunkId) of each hit, all owned by the caller
ResolverHits ==
    <<[doc_id |-> MkId("a", "x", "1"), chunk_id |-> MkId("c", "y", "2")],
      [doc_id |-> MkId("a", "x", "1"), chunk_id |-> MkId("c", "x", "1")],
      [doc_id |-> MkId("b", "x", "1"), chunk_id |-> MkId("d", "x", "1")]>>

\* str.lower() and str.strip() on an identifier
LowerId(s) == [i \in 1..Len(s) |-> CASE s[i] = "A" -> "a" [] s[i] = "C" -> "c"
                                     [] s[i] = "D" -> "d" [] OTHER -> s[i]]

RECURSIVE StripId(_)
StripId(s) ==
    IF s = <<>> THEN s
    ELSE IF Head(s) = " " THEN StripId(Tail(s))
    ELSE IF s[Len(s)] = " " THEN StripId(SubSeq(s, 1, Len(s) - 1))
    ELSE s

StartsWith(s, p) == Len(p) <= Len(s) /\ SubSeq(s, 1, Len(p)) = p

ContainsId(s, p) == \E i \in 1..(Len(s) - Len(p) + 1) : SubSeq(s, i, i + Len(p) - 1) = p

\* find_full_uuid_from_prefix; <<>> stands for None
find_full_uuid_from_prefix(prefix, known) ==
    IF prefix = <<>> \/ Len(prefix) < 8 THEN <<>>
    ELSE LET prefix_clean == LowerId(StripId(prefix))
             exact == {u \in known : LowerId(u) = prefix_clean}
             starts == {u \in known : StartsWith(LowerId(u), prefix_clean)}
             holds == {u \in known : ContainsId(LowerId(u), prefix_clean)}
         IN  IF exact # {} THEN CHOOSE u \in exact : TRUE
             ELSE IF Cardinality(starts) = 1 THEN CHOOSE u \in starts : TRUE
             ELSE IF starts = {} /\ Len(prefix_clean) >= 12 /\ Cardinality(holds) = 1
             THEN CHOOSE u \in holds : TRUE
             ELSE <<>>

\* the identifiers execute_tool hands to open_citation
IdsToOpen(doc_id, chunk_id, hits) ==
    LET resolved_doc ==
            find_full_uuid_from_prefix(doc_id, {hits[i].doc_id : i \in 1..Len(hits)})
        resolved_chunk ==
            find_full_uuid_from_prefix(chunk_id, {hits[i].chunk_id : i \in 1..Len(hits)})
    IN  IF resolved_doc # <<>> /\ resolved_chunk # <<>>
        THEN [doc_id |-> resolved_doc, chunk_id |-> resolved_chunk]
        ELSE IF resolved_doc # <<>>
        THEN LET first == CHOOSE i \in 1..Len(hits) :
                              /\ hits[i].doc_id = resolved_doc
                              /\ \A j \in 1..(i - 1) : hits[j].doc_id # resolved_doc
             IN  [doc_id |-> resolved_doc, chunk_id |-> hits[first].chunk_id]
        ELSE [doc_id |-> doc_id, chunk_id |-> chunk_id]

\* what the model may write for an identifier of kind p ("a", "b" documents,
\* "c", "d" chunks): complete, upper case, padded, cut to 8 or 7 characters,
\* a middle or tail portion of 12, or unknown
SuppliedIds(ps) ==
    UNION {{MkId(p, "x", "1"), MkId(p, "y", "2"),
            [i \in 1..8 |-> p], [i \in 1..7 |-> p], [i \in 1..9 |-> IF i = 9 THEN " " ELSE p],
            [i \in 1..20 |-> IF i <= 8 THEN (IF p = "c" THEN "C" ELSE IF p = "d" THEN "D"
                                              ELSE IF p = "a" THEN "A" ELSE p)
                             ELSE IF i <= 14 THEN "x" ELSE "1"]} : p \in ps}
        \cup {[i \in 1..12 |-> IF i <= 6 THEN "x" ELSE "1"],
              [i \in 1..12 |-> IF i <= 6 THEN "y" ELSE "2"],
              [i \in 1..12 |-> "z"]}

InitResolver ==
    /\ pc = "resolve"
    /\ response = NoResponse
    /\ action \in [docId : SuppliedIds({"a", "b"}), chunkId : SuppliedIds({"c", "d"})]
    /\ scenario = "any"
    /\ RunIdle
    /\ search_queries = <<>>
    /\ search_results = <<>>
    /\ opened_citations = <<>>
    /\ citation_counter = 0
    /\ opened_log = <<>>

\* the open_citation branch of execute_tool on these identifiers: the call
\* succeeds when the store holds the chunk under the document
ResolveAndOpen ==
    /\ pc = "resolve"
    /\ LET ids == IdsToOpen(action.docId, action.chunkId, ResolverHits)
       IN  result' = [doc_id |-> ids.doc_id, chunk_id |-> ids.chunk_id,
                      opened |-> \E i \in 1..Len(ResolverHits) : ResolverHits[i] = ids]
    /\ pc' = "resolved"
    /\ UNCHANGED <<question, mode, constraints, iteration, reprompt_count, json_error_count,
                   final_action, reprompt_message, trace, validation, faults, synth_calls,
                   events>>
    /\ UNCHANGED stateVars
    /\ UNCHANGED parserVars

SpecResolver == InitResolver /\ [][ResolveAndOpen]_vars

\* the known identifiers a supplied identifier matches: as a whole, as a
\* prefix or as a portion, ignoring case
MatchedBy(id, known) ==
    {u \in known : id # <<>> /\ ContainsId(LowerId(u), LowerId(StripId(id)))}

\* the match is unambiguous, by the three rules in their order
Unambiguous(id, known, u) ==
    LET clean == LowerId(StripId(id))
        starts == {k \in known : StartsWith(LowerId(k), clean)}
    IN  /\ u \in known
        /\ \/ LowerId(u) = clean
           \/ starts = {u}
           \/ starts = {} /\ Len(clean) >= 12 /\ MatchedBy(id, known) = {u}

C36_ModesReturnTheSame ==
    pc = "done" =>
        /\ (final_action # NoFinal /\ final_action.insufficiencies.k = "list") =>
              result.insufficiencies = final_action.insufficiencies.v
        /\ CountEntries("reprompt") =
              (IF reprompt_count < MAX_REPROMPTS THEN reprompt_count ELSE MAX_REPROMPTS - 1)
        /\ trace[Len(trace)].type \in {"final", "error"}

\* this step ran the validator on a Final
ValidatorInvoked == validation'.iteration = iteration + 1 /\ iteration' = iteration + 1

\* the tool calls the validator demands: min_searches binds from 2 on
DemandedCalls(cons) ==
    (IF cons.min_searches > 1 THEN cons.min_searches ELSE 0) + cons.min_open_citations

\* C37: whenever the validator is invoked on a Final, tool_calls_used is at
\* most MAX_TOOL_CALLS - 1, so the searches made and the chunks opened number
\* at most MAX_TOOL_CALLS - 1 together, every reprompt is built with a
\* remaining budget of at least 1, and no Final passes validation under
\* constraints whose enforced demands - min_searches when it is 2 or more,
\* plus min_open_citations - exceed MAX_TOOL_CALLS - 1.
C37_ValidatorSeesUnspentBudget ==
    [][ValidatorInvoked =>
          /\ tool_calls_used' <= MAX_TOOL_CALLS - 1
          /\ search_count(search_queries') + Len(opened_log') <= MAX_TOOL_CALLS - 1
          /\ reprompt_message' = "validation" =>
                remaining_tool_budget(tool_calls_used') >= 1
          /\ DemandedCalls(constraints) > MAX_TOOL_CALLS - 1 => ~validation'.is_valid]_vars

\* C37 as stated: no Final passes validation under constraints with
\* min_searches + min_open_citations above MAX_TOOL_CALLS - 1.
C37_SumAboveBudgetNeverValid ==
    [][(/\ ValidatorInvoked
        /\ constraints.min_searches + constraints.min_open_citations > MAX_TOOL_CALLS - 1)
          => ~validation'.is_valid]_vars

\* a Final rejected under min_searches = 5 after four tool calls, reprompted
\* with one tool call left
C37_RejectedWithOneCallLeft ==
    /\ scenario = "demanding"
    /\ constraints.min_searches = 5
    /\ validation.iteration = iteration
    /\ iteration > 0
    /\ ~validation.is_valid
    /\ search_count(search_queries) + Len(opened_log) = MAX_TOOL_CALLS - 1
    /\ tool_calls_used = MAX_TOOL_CALLS - 1
    /\ reprompt_message = "validation"

\* C38: in every state of a run the citation numbers held in
\* opened_citations are exactly 1..Len(opened_citations) and no chunk has
\* left the rolling window, since at most MAX_TOOL_CALLS chunks are opened
\* and MAX_TOOL_CALLS <= MAX_CONTEXT_CITATIONS; so the validator's range
\* test 1..open_citation_count and the grounder's lookup by citation number
\* accept the same markers.
C38_WindowNeverEvictsInARun ==
    /\ MAX_TOOL_CALLS <= MAX_CONTEXT_CITATIONS
    /\ Len(opened_log) <= MAX_TOOL_CALLS
    /\ opened_citations = opened_log
    /\ \A i \in 1..Len(opened_citations) : opened_citations[i].citation_num = i
    /\ \A t \in {"1", "2", "7", "07"} :
          (MarkerNum(t) \in 1..to_snapshot(search_queries, search_results,
                                           opened_citations).open_citation_count)
              <=> MarkerNum(t) \in OpenedNums(opened_citations)

\* a run that opened MAX_TOOL_CALLS chunks
C38_WindowFilledByRun ==
    /\ pc = "done"
    /\ Len(opened_citations) = MAX_CONTEXT_CITATIONS
    /\ tool_calls_used = MAX_TOOL_CALLS

\* C39: the citation list returned by a run never holds two entries with
\* the same (docId, chunkId), whether it comes from the accepted Final,
\* from the synthesis fallback or from the search-hit fallback.
C39_ReturnedCitationsDistinct ==
    pc = "done" =>
        \A i, j \in 1..Len(result.citations) :
            (/\ result.citations[i].doc_id = result.citations[j].doc_id
             /\ result.citations[i].chunk_id = result.citations[j].chunk_id)
                => i = j

\* C40: in streaming mode the trace entries yielded before the final
\* result are exactly the trace of the returned result: each entry once,
\* in order, none repeated or omitted, also after a tool dispatch that
\* failed without appending a trace entry.
C40_StreamedEntriesAreTheTrace ==
    (pc = "done" /\ mode = "stream") =>
        LET sent == SelectSeq(events, LAMBDA e : e.kind = "trace")
        IN  [i \in 1..Len(sent) |-> sent[i].entry] = trace

====
